---- MODULE Spec2Model ----
(***************************************************************************)
(* A model of stable_mind's persistent core: the perception buffer (an     *)
(* append-only JSONL log), the counters file with the commit cursor, the   *)
(* stable persona file with the belief store, and Agent.step, which drives *)
(* them once per external turn.                                            *)
(*                                                                         *)
(* The state between two Agent.step calls is what is on disk: Agent keeps  *)
(* nothing in memory across calls (every step starts with load_persona,    *)
(* load_vectors, load_counters).  One action models one whole call of      *)
(* Agent.step; a call that aborts part-way is an action of its own, whose  *)
(* result is the disk content at the point of the abort.                   *)
(*                                                                         *)
(* Numbers the code holds as floats are fixed-point integers here, in      *)
(* units of 1/ScaleOne.                                                    *)
(***************************************************************************)
EXTENDS Integers, Sequences, FiniteSets, Bags, TLC

VARIABLES
    countersFile,   \* state/counters.json: [ok, data]; ok = FALSE is a torn write
    stableFile,     \* persona/stable.json: [ok, beliefs, applied]
    vectorsFile,    \* state/vectors.json: [ok, data]
    bufferFile,     \* memory/perception_buffer.jsonl: the sequence of its records
    passed,         \* history: bag of the log records handed to ConsolidationEngine.run
    last,           \* history: what the most recent Agent.step call did and returned
    aborts,         \* history: the number of calls that ended before returning
    vac,            \* harness of vacuum_buffer_keep_recent as a function of its inputs
    log,            \* harness of the buffer file as text: lines, torn writes, the .tmp file
    fold,           \* harness of ConsolidationEngine.run on arbitrary observations
    refl,           \* harness of ReflectionEngine.run: the traits, the audit log, the return value
    ext             \* harness of PerceptionEngine._extract_function_args: a response, the result

vars == <<countersFile, stableFile, vectorsFile, bufferFile, passed, last, aborts, vac, log, fold,
          refl, ext>>

sysVars == <<countersFile, stableFile, vectorsFile, bufferFile, passed, last, aborts>>

----------------------------------------------------------------------------
(* Bounds of the model *)

MaxTurn == 4

MaxAborts == 2

MaxWindow == 2

MaxVacLen == 4      \* longest log handed to the vacuum harness

MaxVacTurn == 3     \* turns of the harness' records and bounds range over 0..MaxVacTurn

MaxVacCap == 3      \* max_lines_keep of the harness ranges over 0..MaxVacCap

MaxLogTurn == 2     \* turns and bounds of the text harness range over 0..MaxLogTurn

MaxLogCap == 2      \* max_lines_keep of the text harness ranges over 1..MaxLogCap

MaxScanLen == 3     \* longest file handed to the scans of SpecScan

MaxFolds == 3       \* ConsolidationEngine.run calls of the fold harness

MaxReflects == 2    \* ReflectionEngine.run calls of the reflection harness

----------------------------------------------------------------------------
(* Program constants *)

ScaleOne == 10 * 1000           \* the fixed-point representation of 1.0

DefaultWindow == 20             \* load_counters default rumination_window_size

RetentionTurns == 200           \* Agent.step: keep_turn_greater_than = max(0, turn - 200)

MaxLinesKeep == 5000            \* Agent.step: max_lines_keep = 5000

Alpha == 2500                   \* ConsolidationEngine alpha = 0.25

ConfGain == 500                 \* conf_gain = 0.05

MinObsConf == 7500              \* min_obs_conf = 0.75

MinAbsValue == 4500             \* min_abs_value = 0.45

MinDelta == 1000                \* min_delta = 0.10

InitialConfidence == 2000       \* a new dimension block starts with confidence 0.2

Sessions == {"s1", "s2"}

NoSession == "None"             \* session_id = None: no session filter

NoTurn == -1                    \* rec.get("turn", -1): the turn of a record without one

----------------------------------------------------------------------------
(* Arithmetic helpers *)

Abs(x) == IF x < 0 THEN -x ELSE x

Max(a, b) == IF a >= b THEN a ELSE b

Min(a, b) == IF a <= b THEN a ELSE b

\* Mutant of clamp: no clamping
clamp_Identity(x, lo, hi) == x

\* clamp(x, lo, hi) = max(lo, min(hi, x))
clamp(x, lo, hi) == Max(lo, Min(hi, x))

\* a / b rounded to the nearest unit (b > 0): the fixed-point image of a float product
RoundDiv(a, b) == IF a >= 0 THEN (2 * a + b) \div (2 * b) ELSE -((2 * (-a) + b) \div (2 * b))

\* Python's kept[-n:] for a sequence: the last n elements, and the whole
\* sequence for n = 0 (kept[-0:] is kept[0:]); for n < 0 it is kept[(-n):]
LastSlice(s, n) ==
    IF n = 0 THEN s
    ELSE IF n > 0 THEN SubSeq(s, Max(1, Len(s) - n + 1), Len(s))
    ELSE SubSeq(s, (-n) + 1, Len(s))

Range(s) == {s[i] : i \in DOMAIN s}

----------------------------------------------------------------------------
(* The perception buffer: memory/perception_buffer.jsonl *)

\* One line of the buffer, as append_perceptions_to_buffer writes it
BufferRecord(p, turn, session_id) ==
    [turn |-> turn,
     session_id |-> session_id,
     entity_type |-> p.entity_type,
     entity |-> p.entity,
     dimension_values |-> p.dimension_values,
     confidence |-> p.confidence]

\* The lines append_perceptions_to_buffer adds for a list of perceptions
RECURSIVE AppendedLines(_, _, _)
AppendedLines(perceptions, turn, session_id) ==
    IF perceptions = <<>> THEN <<>>
    ELSE <<BufferRecord(Head(perceptions), turn, session_id)>>
           \o AppendedLines(Tail(perceptions), turn, session_id)

\* Mutant of append_perceptions_to_buffer: the file is opened with "w"
append_perceptions_to_buffer_Truncating(file, perceptions, turn, session_id) ==
    AppendedLines(perceptions, turn, session_id)

\* append_perceptions_to_buffer: the file after the call
append_perceptions_to_buffer(file, perceptions, turn, session_id) ==
    file \o AppendedLines(perceptions, turn, session_id)

\* Mutant of InReadRange: the lower bound is inclusive
InReadRange_Inclusive(rec, min_turn_exclusive, max_turn_inclusive, session_id) ==
    /\ ~(rec.turn < min_turn_exclusive \/ rec.turn > max_turn_inclusive)
    /\ ~(session_id # NoSession /\ rec.session_id # session_id)

\* The scan condition of read_buffered_perceptions for one record
InReadRange(rec, min_turn_exclusive, max_turn_inclusive, session_id) ==
    /\ ~(rec.turn <= min_turn_exclusive \/ rec.turn > max_turn_inclusive)
    /\ ~(session_id # NoSession /\ rec.session_id # session_id)

\* read_buffered_perceptions: the records returned, in file order.  The code
\* returns them without turn and session_id; the model keeps the whole record
\* so that a batch can be traced back to the lines it was read from.
read_buffered_perceptions(file, min_turn_exclusive, max_turn_inclusive, session_id) ==
    SelectSeq(file, LAMBDA rec :
        InReadRange(rec, min_turn_exclusive, max_turn_inclusive, session_id))

\* Mutant of vacuum_buffer_keep_recent: the turn bound is off by one
vacuum_buffer_keep_recent_OffByOne(file, keep_turn_greater_than, max_lines_keep) ==
    LET kept == SelectSeq(file, LAMBDA rec : rec.turn > keep_turn_greater_than + 1)
    IN  IF Len(kept) > max_lines_keep THEN LastSlice(kept, max_lines_keep) ELSE kept

\* vacuum_buffer_keep_recent: the file after the call
vacuum_buffer_keep_recent(file, keep_turn_greater_than, max_lines_keep) ==
    LET kept == SelectSeq(file, LAMBDA rec : rec.turn > keep_turn_greater_than)
    IN  IF Len(kept) > max_lines_keep THEN LastSlice(kept, max_lines_keep) ELSE kept

----------------------------------------------------------------------------
(* The buffer file as text: one line per record *)

\* A line of the file.  kind says what the scan loop makes of its text:
\*   record      the JSON object append_perceptions_to_buffer wrote
\*   no_turn     a JSON object without "turn": rec.get("turn", -1) is -1
\*   blank       empty after strip(): skipped
\*   unparsable  json.loads raises: skipped
\*   non_dict    JSON, but no object (a list, a number, null): rec.get raises
\*   bad_turn    a JSON object whose turn int() rejects (null, "abc"): int raises
\* rec is the record the text decodes to (for the other kinds: the record
\* whose text the line was made from).
Line(kind, rec) == [kind |-> kind, rec |-> rec]

RecordLine(rec) == Line(IF rec.turn = NoTurn THEN "no_turn" ELSE "record", rec)

\* The line is skipped by `if not line` or by the except branch of json.loads
LineSkipped(line) == line.kind \in {"blank", "unparsable"}

\* rec.get or int(...) raises on the line: the exception leaves the scan loop
LineRaises(line) == line.kind \in {"non_dict", "bad_turn"}

ScanRaises(lines) == \E i \in DOMAIN lines : LineRaises(lines[i])

\* Mutant of DecodedRecords: the file is decoded as one document, so that one
\* undecodable line makes every record unreadable
DecodedRecords_WholeFile(lines) ==
    IF \E i \in DOMAIN lines : lines[i].kind = "unparsable" THEN <<>>
    ELSE [i \in 1..Len(SelectSeq(lines, LAMBDA l : ~LineSkipped(l))) |->
             SelectSeq(lines, LAMBDA l : ~LineSkipped(l))[i].rec]

\* The records the scan loop decodes, line by line, in file order
DecodedRecords(lines) ==
    LET decoded == SelectSeq(lines, LAMBDA l : ~LineSkipped(l) /\ ~LineRaises(l))
    IN  [i \in 1..Len(decoded) |-> decoded[i].rec]

\* The text f.write adds to a file in "a" mode: when the file does not end
\* with a newline, the first new line continues the unterminated last one
AppendText(lines, open, new) ==
    IF new = <<>> THEN lines
    ELSE IF open
    THEN SubSeq(lines, 1, Len(lines) - 1)
           \o <<Line("unparsable", lines[Len(lines)].rec)>> \o Tail(new)
    ELSE lines \o new

\* The n append_perceptions_to_buffer returns: one per perception written
AppendedCount(perceptions) == Len(perceptions)

----------------------------------------------------------------------------
(* The belief store and ConsolidationEngine (the aggregator) *)

\* The beliefs are nested maps: entity_type -> entity key -> dimension -> block
EmptyMap == [x \in {} |-> x]

\* dict.setdefault(key, {}) followed by an assignment to the entry
MapPut(m, key, value) == [k \in DOMAIN m \cup {key} |-> IF k = key THEN value ELSE m[k]]

\* dict.get(key, default)
MapGet(m, key, default) == IF key \in DOMAIN m THEN m[key] ELSE default

\* The entity names the model spells out, character by character
SpelledNames == {"mom", "Mom", "MOM", " mom ", " MOM", "mo m", "  ", ""}

\* The characters of an entity name; a name the model does not spell out
\* counts as one lowercase character
Chars(entity) ==
    CASE entity = "mom" -> <<"m", "o", "m">>
      [] entity = "Mom" -> <<"M", "o", "m">>
      [] entity = "MOM" -> <<"M", "O", "M">>
      [] entity = " mom " -> <<" ", "m", "o", "m", " ">>
      [] entity = " MOM" -> <<" ", "M", "O", "M">>
      [] entity = "mo m" -> <<"m", "o", " ", "m">>
      [] entity = "  " -> <<" ", " ">>
      [] entity = "" -> <<>>
      [] OTHER -> <<entity>>

\* The name with the given characters
Text(chars) ==
    IF Len(chars) = 1 THEN chars[1]
    ELSE CHOOSE name \in SpelledNames : Chars(name) = chars

\* str.strip(): the characters without the whitespace at either end
RECURSIVE Strip(_)
Strip(chars) ==
    IF chars = <<>> THEN chars
    ELSE IF Head(chars) = " " THEN Strip(Tail(chars))
    ELSE IF chars[Len(chars)] = " " THEN Strip(SubSeq(chars, 1, Len(chars) - 1))
    ELSE chars

\* str.lower(), on the letters the model uses
Lower(chars) ==
    [i \in DOMAIN chars |->
        CASE chars[i] = "M" -> "m"
          [] chars[i] = "O" -> "o"
          [] OTHER -> chars[i]]

\* Mutant of EntityKey: the key keeps the letter case
EntityKey_CaseSensitive(entity) == Text(Strip(Chars(entity)))

\* entity.strip().lower()
EntityKey(entity) == Text(Lower(Strip(Chars(entity))))

\* The block setdefault creates for a dimension seen for the first time
NewDimBlock(turn) ==
    [mean |-> 0, confidence |-> InitialConfidence, n |-> 0, last_updated_turn |-> turn]

\* Mutant of Proposed: the observed value replaces the mean
Proposed_Unblended(old_mean, value) == clamp(value, -ScaleOne, ScaleOne)

\* proposed = clamp((1 - alpha) * old_mean + alpha * value, -1, 1)
Proposed(old_mean, value) ==
    clamp(RoundDiv((ScaleOne - Alpha) * old_mean + Alpha * value, ScaleOne),
          -ScaleOne, ScaleOne)

\* Mutant of GateCSkips: Gate C never rejects
GateCSkips_Never(dim_block, value) == FALSE

\* Mutant of GateCSkips: a small step is rejected on a new dimension too
GateCSkips_IgnoresN(dim_block, value) ==
    Abs(Proposed(dim_block.mean, value) - dim_block.mean) < MinDelta

\* Gate C: the update adds too little and the dimension has been updated before
GateCSkips(dim_block, value) ==
    /\ Abs(Proposed(dim_block.mean, value) - dim_block.mean) < MinDelta
    /\ dim_block.n > 0

\* One dimension of one observation, once Gate B has let it through
UpdateDim(dim_block, value, obs_conf, turn) ==
    IF GateCSkips(dim_block, value) THEN dim_block
    ELSE [dim_block EXCEPT
            !.mean = Proposed(dim_block.mean, value),
            !.n = dim_block.n + 1,
            !.last_updated_turn = turn,
            !.confidence = clamp(dim_block.confidence + RoundDiv(ConfGain * obs_conf, ScaleOne),
                                 0, ScaleOne)]

\* Mutant of FoldDims: a dimension below min_abs_value ends the observation
FoldDims_WeakRejectsAll(entity_block, dim_values, obs_conf, turn) ==
    IF \E d \in DOMAIN dim_values : Abs(dim_values[d]) < MinAbsValue
    THEN entity_block
    ELSE [d \in DOMAIN entity_block \cup DOMAIN dim_values |->
            IF d \in DOMAIN dim_values
            THEN UpdateDim(MapGet(entity_block, d, NewDimBlock(turn)),
                           dim_values[d], obs_conf, turn)
            ELSE entity_block[d]]

\* The entity block after the loop over the observation's dimensions
FoldDims(entity_block, dim_values, obs_conf, turn) ==
    LET through == {d \in DOMAIN dim_values : ~(Abs(dim_values[d]) < MinAbsValue)}
    IN  [d \in DOMAIN entity_block \cup through |->
            IF d \in through
            THEN UpdateDim(MapGet(entity_block, d, NewDimBlock(turn)),
                           dim_values[d], obs_conf, turn)
            ELSE entity_block[d]]

\* The body of the loop of ConsolidationEngine.run for one observation
FoldObs(beliefs, obs, turn) ==
    IF DOMAIN obs.dimension_values = {} THEN beliefs
    ELSE IF obs.confidence < MinObsConf THEN beliefs
    ELSE LET entity_key == EntityKey(obs.entity)
             type_block == MapGet(beliefs, obs.entity_type, EmptyMap)
             entity_block == MapGet(type_block, entity_key, EmptyMap)
             folded == FoldDims(entity_block, obs.dimension_values, obs.confidence, turn)
         IN  IF entity_key = "" THEN beliefs
             ELSE MapPut(beliefs, obs.entity_type, MapPut(type_block, entity_key, folded))

\* migrate_plural_beliefs for one plural key: merge without overwriting, then delete
MigrateOne(beliefs, plural, singular) ==
    IF plural \notin DOMAIN beliefs THEN beliefs
    ELSE LET from == beliefs[plural]
             into == MapGet(beliefs, singular, EmptyMap)
             merged == [e \in DOMAIN into \cup DOMAIN from |->
                           IF e \in DOMAIN into THEN into[e] ELSE from[e]]
         IN  [t \in (DOMAIN beliefs \cup {singular}) \ {plural} |->
                 IF t = singular THEN merged ELSE beliefs[t]]

migrate_plural_beliefs(beliefs) ==
    MigrateOne(MigrateOne(beliefs, "places", "place"), "people", "person")

RECURSIVE FoldAll(_, _, _)
FoldAll(beliefs, perceptions, turn) ==
    IF perceptions = <<>> THEN beliefs
    ELSE FoldAll(FoldObs(beliefs, Head(perceptions), turn), Tail(perceptions), turn)

\* ConsolidationEngine.run: the beliefs after folding a batch
ConsolidationRun(beliefs, perceptions, turn) ==
    FoldAll(migrate_plural_beliefs(beliefs), perceptions, turn)

----------------------------------------------------------------------------
(* ReflectionEngine (the Drift Engine): trust <-- person.*.warmth *)

DriftThreshold == 2500          \* DRIFT_THRESHOLD = 0.25

ConfThreshold == 7000           \* CONF_THRESHOLD = 0.70

MinObs == 10                    \* MIN_OBS

TraitStepBeta == 500            \* TRAIT_STEP_BETA = 0.05

TraitMaxStep == 800             \* TRAIT_MAX_STEP = 0.08

\* The persons whose block holds a warmth dimension
Candidates(beliefs) ==
    LET person_block == MapGet(beliefs, "person", EmptyMap)
    IN  {p \in DOMAIN person_block : "warmth" \in DOMAIN person_block[p]}

\* Mutant of BaselineMean: a missing baseline is read as 0
BaselineMean_Zero(dim_block) == MapGet(dim_block, "baseline_mean", 0)

\* float(dim_block.get("baseline_mean", mean))
BaselineMean(dim_block) == MapGet(dim_block, "baseline_mean", dim_block.mean)

\* drift = abs(mean - baseline_mean)
Drift(dim_block) == Abs(dim_block.mean - BaselineMean(dim_block))

\* Mutant of Triggers: one condition is enough
Triggers_AnyCondition(dim_block) ==
    \/ Drift(dim_block) >= DriftThreshold
    \/ dim_block.confidence >= ConfThreshold
    \/ dim_block.n >= MinObs

\* The trigger of one belief
Triggers(dim_block) ==
    /\ Drift(dim_block) >= DriftThreshold
    /\ dim_block.confidence >= ConfThreshold
    /\ dim_block.n >= MinObs

\* The persons of the list triggered
Triggered(beliefs) ==
    {p \in Candidates(beliefs) : Triggers(beliefs["person"][p]["warmth"])}

\* weighted_sum (mean * conf) and weight_total (conf) over the triggered beliefs
RECURSIVE WeightedSum(_, _)
WeightedSum(beliefs, persons) ==
    IF persons = {} THEN 0
    ELSE LET p == CHOOSE q \in persons : TRUE
             w == beliefs["person"][p]["warmth"]
         IN  w.mean * w.confidence + WeightedSum(beliefs, persons \ {p})

RECURSIVE WeightTotal(_, _)
WeightTotal(beliefs, persons) ==
    IF persons = {} THEN 0
    ELSE LET p == CHOOSE q \in persons : TRUE
         IN  beliefs["person"][p]["warmth"].confidence + WeightTotal(beliefs, persons \ {p})

\* Mutant of Signal: every candidate weighs in, triggered or not
Signal_AllCandidates(beliefs) ==
    LET weighted_sum == WeightedSum(beliefs, Candidates(beliefs))
        weight_total == WeightTotal(beliefs, Candidates(beliefs))
    IN  clamp(IF weight_total > 0 THEN RoundDiv(weighted_sum, weight_total) ELSE 0,
              -ScaleOne, ScaleOne)

\* signal = clamp(weighted_sum / weight_total if weight_total > 0 else 0, -1, 1)
Signal(beliefs) ==
    LET weighted_sum == WeightedSum(beliefs, Triggered(beliefs))
        weight_total == WeightTotal(beliefs, Triggered(beliefs))
    IN  clamp(IF weight_total > 0 THEN RoundDiv(weighted_sum, weight_total) ELSE 0,
              -ScaleOne, ScaleOne)

\* desired - old_trait, with desired = old_trait + beta * (signal - old_trait)
TraitWish(old_trait, signal) == RoundDiv(TraitStepBeta * (signal - old_trait), ScaleOne)

\* Mutant of TraitDelta: the step is not limited
TraitDelta_Unlimited(old_trait, signal) == TraitWish(old_trait, signal)

\* delta = clamp(desired - old_trait, -max_step, max_step)
TraitDelta(old_trait, signal) ==
    clamp(TraitWish(old_trait, signal), -TraitMaxStep, TraitMaxStep)

\* new_trait = clamp(old_trait + delta, -1, 1)
NewTrait(old_trait, signal) ==
    clamp(old_trait + TraitDelta(old_trait, signal), -ScaleOne, ScaleOne)

\* Mutant of Rebased: the turn is recorded, the baseline stays where it was
Rebased_TurnOnly(dim_block, turn) ==
    [f \in DOMAIN dim_block \cup {"baseline_turn"} |->
        IF f = "baseline_turn" THEN turn ELSE dim_block[f]]

\* Mutant of Rebased: the count of observations starts again
Rebased_Forgetting(dim_block, turn) ==
    [f \in DOMAIN dim_block \cup {"baseline_mean", "baseline_turn"} |->
        CASE f = "baseline_mean" -> dim_block.mean
          [] f = "baseline_turn" -> turn
          [] f = "n" -> 0
          [] OTHER -> dim_block[f]]

\* w["baseline_mean"] = w["mean"]; w["baseline_turn"] = turn
Rebased(dim_block, turn) ==
    [f \in DOMAIN dim_block \cup {"baseline_mean", "baseline_turn"} |->
        CASE f = "baseline_mean" -> dim_block.mean
          [] f = "baseline_turn" -> turn
          [] OTHER -> dim_block[f]]

\* Mutant of ResetBaselines: every candidate is re-anchored
ResetBaselines_All(beliefs, persons, turn) ==
    [beliefs EXCEPT !["person"] =
        [p \in DOMAIN beliefs["person"] |->
            IF p \in Candidates(beliefs)
            THEN [beliefs["person"][p] EXCEPT !["warmth"] = Rebased(@, turn)]
            ELSE beliefs["person"][p]]]

\* The loop over the triggered beliefs that re-anchors their baselines
ResetBaselines(beliefs, persons, turn) ==
    [beliefs EXCEPT !["person"] =
        [p \in DOMAIN beliefs["person"] |->
            IF p \in persons
            THEN [beliefs["person"][p] EXCEPT !["warmth"] = Rebased(@, turn)]
            ELSE beliefs["person"][p]]]

\* The entry _append_log writes: the turn, did_update, the reason of a no-op
\* and the persons triggered
AuditEntry(turn, did_update, reason, persons) ==
    [turn |-> turn, did_update |-> did_update, reason |-> reason, triggered |-> persons]

\* ReflectionEngine.run on a belief store that is a dict: the store, the
\* traits, the audit entry and the return value
ReflectionRun(beliefs, trait_vector, turn) ==
    LET with_trust == IF "trust" \in DOMAIN trait_vector THEN trait_vector
                      ELSE MapPut(trait_vector, "trust", 0)
        triggered == Triggered(beliefs)
    IN  IF Candidates(beliefs) = {}
        THEN [beliefs |-> beliefs, trait_vector |-> with_trust, returned |-> FALSE,
              entry |-> AuditEntry(turn, FALSE, "no_warmth_beliefs", {})]
        ELSE IF triggered = {}
        THEN [beliefs |-> beliefs, trait_vector |-> with_trust, returned |-> FALSE,
              entry |-> AuditEntry(turn, FALSE, "no_beliefs_triggered", {})]
        ELSE [beliefs |-> ResetBaselines(beliefs, triggered, turn),
              trait_vector |-> [with_trust EXCEPT !["trust"] = NewTrait(@, Signal(beliefs))],
              returned |-> TRUE,
              entry |-> AuditEntry(turn, TRUE, "", triggered)]

----------------------------------------------------------------------------
(* PerceptionEngine._extract_function_args: the arguments of the tool call  *)
(* in a model response                                                      *)

ToolName == "extract_perceptions"      \* TOOL_NAME

\* The value of the fallbacks: {"entities": []}
NoEntities == [entities |-> <<>>]

\* Argument dicts: one entity, for the tool and for another function
ArgsPark == [entities |-> <<"park">>]

ArgsCafe == [entities |-> <<"cafe">>]

\* json.loads on the texts of the harness: the value a text denotes, or an
\* exception (ok = FALSE) for a text that is no JSON
json_loads(text) ==
    CASE text = "{\"entities\": [\"park\"]}" -> [ok |-> TRUE, value |-> ArgsPark]
      [] text = "{\"entities\": [\"cafe\"]}" -> [ok |-> TRUE, value |-> ArgsCafe]
      [] text = "{\"entities\": []}" -> [ok |-> TRUE, value |-> NoEntities]
      [] text = "{}" -> [ok |-> TRUE, value |-> EmptyMap]
      [] OTHER -> [ok |-> FALSE, value |-> EmptyMap]

\* The arguments attribute of an output item: a dict, a string, None, or no
\* such attribute
DictArgs(value) == [kind |-> "dict", value |-> value, text |-> ""]

StrArgs(text) == [kind |-> "str", value |-> EmptyMap, text |-> text]

NoneArgs == [kind |-> "none", value |-> EmptyMap, text |-> ""]

AbsentArgs == [kind |-> "absent", value |-> EmptyMap, text |-> ""]

\* Mutant of parse_args: a string is taken for the empty result
parse_args_DictOnly(raw_args) ==
    IF raw_args.kind = "dict" THEN raw_args.value ELSE NoEntities

\* _parse_args
parse_args(raw_args) ==
    IF raw_args.kind = "dict" THEN raw_args.value
    ELSE IF raw_args.kind = "str"
    THEN IF json_loads(raw_args.text).ok THEN json_loads(raw_args.text).value ELSE NoEntities
    ELSE NoEntities

\* getattr(item, "arguments", "{}")
ArgumentsOf(item) == IF item.arguments.kind = "absent" THEN StrArgs("{}") ELSE item.arguments

\* Mutant of IsToolCall: any function call will do
IsToolCall_AnyName(item) == item.type \in {"function_call", "tool_call"}

\* The test on an item or on an element of its content
IsToolCall(item) ==
    /\ item.type \in {"function_call", "tool_call"}
    /\ item.name = ToolName

\* Mutant of ScanOutput: the content of the items is not looked at
RECURSIVE ScanOutput_TopLevelOnly(_, _)
ScanOutput_TopLevelOnly(output, output_text) ==
    IF output = <<>>
    THEN IF json_loads(output_text).ok THEN json_loads(output_text).value ELSE NoEntities
    ELSE IF IsToolCall(Head(output)) THEN parse_args(ArgumentsOf(Head(output)))
    ELSE ScanOutput_TopLevelOnly(Tail(output), output_text)

\* The loop over response.output: the item itself, then its content; after
\* the loop, json.loads(response.output_text) or the empty result
RECURSIVE ScanOutput(_, _)
ScanOutput(output, output_text) ==
    IF output = <<>>
    THEN IF json_loads(output_text).ok THEN json_loads(output_text).value ELSE NoEntities
    ELSE LET item == Head(output)
             nested == SelectSeq(item.content, IsToolCall)
         IN  IF IsToolCall(item) THEN parse_args(ArgumentsOf(item))
             ELSE IF nested # <<>> THEN parse_args(ArgumentsOf(nested[1]))
             ELSE ScanOutput(Tail(output), output_text)

\* _extract_function_args(response)
extract_function_args(response) == ScanOutput(response.output, response.output_text)

----------------------------------------------------------------------------
(* StateManager: the JSON files *)

\* load_counters' default, also the content create_persona.py writes except
\* for rumination_window_size
DefaultCounters ==
    [current_turn |-> 0,
     last_rumination_turn |-> 0,
     rumination_window_size |-> DefaultWindow,
     turns_since_last_rumination |-> 0,
     last_buffer_committed_turn |-> 0]

\* A file whose write_text was cut short: _read finds no JSON in it
TornCounters == [ok |-> FALSE, data |-> DefaultCounters]

TornStable == [ok |-> FALSE, beliefs |-> EmptyMap, applied |-> {}]

TornVectors == [ok |-> FALSE, data |-> "empty"]

\* load_counters: _read falls back to the default when the text is no JSON
load_counters(file) == IF file.ok THEN file.data ELSE DefaultCounters

\* load_persona, the stable part: _read falls back to {}.  applied is history:
\* the log records whose fold produced these beliefs.
load_persona(file) ==
    IF file.ok THEN [beliefs |-> file.beliefs, applied |-> file.applied]
    ELSE [beliefs |-> EmptyMap, applied |-> {}]

\* load_vectors: _read falls back to {}
load_vectors(file) == IF file.ok THEN file.data ELSE "empty"

\* _write of a complete JSON text
WrittenCounters(counters) == [ok |-> TRUE, data |-> counters]

WrittenStable(persona) == [ok |-> TRUE, beliefs |-> persona.beliefs, applied |-> persona.applied]

WrittenVectors(vectors) == [ok |-> TRUE, data |-> vectors]

\* Mutant of NextTurnWritten: _next_turn writes a fresh dict holding the turn only
NextTurnWritten_TurnOnly(file) ==
    [ok |-> TRUE, data |-> [DefaultCounters EXCEPT !.current_turn = file.data.current_turn + 1]]

\* PerceptionEngine._next_turn: the counters file after it has rewritten it
\* (it reads the file with json.load, which raises on a torn file)
NextTurnWritten(file) ==
    WrittenCounters([file.data EXCEPT !.current_turn = file.data.current_turn + 1])

----------------------------------------------------------------------------
(* Agent.step *)

\* The perceptions a step works on: the result of PerceptionEngine.analyze
\* after coreference resolution and post-processing
ObsWarm ==
    [entity_type |-> "person", entity |-> "mom",
     dimension_values |-> [warmth |-> 9000], confidence |-> 9000]

ObsPark ==
    [entity_type |-> "place", entity |-> "park",
     dimension_values |-> [quietness |-> 8000], confidence |-> 8000]

PerceptionLists == {<<>>, <<ObsWarm, ObsPark>>}

\* The points at which a call of Agent.step can end, in program order:
\*   next_turn_write  inside _next_turn's write of counters.json (torn file)
\*   analyze          after _next_turn, inside the extraction call
\*   append           after append_perceptions_to_buffer
\*   vacuum           after vacuum_buffer_keep_recent
\*   stable_write     inside save_persona's write of stable.json (torn file)
\*   save_persona     after save_persona
\*   counters_write   inside save_counters' write (torn file)
\*   save_counters    after save_counters
\*   vectors_write    inside save_vectors' write (torn file)
\*   return           the call returns
StopRank(stop) ==
    CASE stop = "next_turn_write" -> 1
      [] stop = "analyze" -> 2
      [] stop = "append" -> 3
      [] stop = "vacuum" -> 4
      [] stop = "stable_write" -> 5
      [] stop = "save_persona" -> 6
      [] stop = "counters_write" -> 7
      [] stop = "save_counters" -> 8
      [] stop = "vectors_write" -> 9
      [] stop = "return" -> 10

\* The turn up to which the files of SpecAged have been in use: the calls that
\* follow have turns 200, 201, ..., at which the step's compaction bound
\* max(0, turn - 200) leaves 0 and compaction starts to remove records
AgedTurn == RetentionTurns - 1

\* The turns the model explores: MaxTurn calls from fresh or from aged files
InHorizon(turn) == turn <= MaxTurn \/ (turn > AgedTurn /\ turn <= AgedTurn + MaxTurn)

\* Mutant of Ruminates: the counter has to exceed the window
Ruminates_Late(counters) ==
    counters.turns_since_last_rumination + 1 > counters.rumination_window_size

\* Whether the step ruminates: turns_since_last_rumination >= window
Ruminates(counters) ==
    counters.turns_since_last_rumination + 1 >= counters.rumination_window_size

\* Mutants of AdvancedCursor: the cursor is left where it was; the cursor is
\* moved one turn past the step's turn
AdvancedCursor_Stale(last_committed, turn) == last_committed

AdvancedCursor_Ahead(last_committed, turn) == turn + 1

\* The cursor a ruminating step leaves in its counters
AdvancedCursor(last_committed, turn) == turn

\* Mutant of StepCounters: the step counts its turn on top of the turn
\* _next_turn has written
StepCounters_CountsTwice(counters) ==
    LET turn == counters.current_turn + 2
    IN  IF Ruminates(counters)
        THEN [counters EXCEPT
                !.current_turn = turn,
                !.last_buffer_committed_turn = turn,
                !.last_rumination_turn = turn,
                !.turns_since_last_rumination = 0]
        ELSE [counters EXCEPT
                !.current_turn = turn,
                !.turns_since_last_rumination = counters.turns_since_last_rumination + 1]

\* The in-memory counters at the end of the step
StepCounters(counters) ==
    LET turn == counters.current_turn + 1
    IN  IF Ruminates(counters)
        THEN [counters EXCEPT
                !.current_turn = turn,
                !.last_buffer_committed_turn =
                    AdvancedCursor(counters.last_buffer_committed_turn, turn),
                !.last_rumination_turn = turn,
                !.turns_since_last_rumination = 0]
        ELSE [counters EXCEPT
                !.current_turn = turn,
                !.turns_since_last_rumination = counters.turns_since_last_rumination + 1]

\* The batch a ruminating step reads: (last_committed, turn], this session only
StepBatch(buffer, counters, session_id) ==
    read_buffered_perceptions(buffer, counters.last_buffer_committed_turn,
                              counters.current_turn + 1, session_id)

\* The in-memory persona at the end of the step
StepPersona(persona, buffered, ruminates, turn) ==
    IF ruminates /\ buffered # <<>>
    THEN [beliefs |-> ConsolidationRun(persona.beliefs, buffered, turn),
          applied |-> persona.applied \cup Range(buffered)]
    ELSE persona

\* The buffer file after the step's compaction
StepVacuum(buffer, turn) ==
    vacuum_buffer_keep_recent(buffer, Max(0, turn - RetentionTurns), MaxLinesKeep)

\* The buffer_size a returning step reports: the length of its last read,
\* of (last_buffer_committed_turn, turn] for the session of the call
StepBufferSize(buffer, counters, turn, session_id) ==
    Len(read_buffered_perceptions(buffer, counters.last_buffer_committed_turn,
                                  turn, session_id))

\* The operations of the rumination block, in the order the step performs them
RuminationOps(buffered) ==
    <<"read">> \o (IF buffered # <<>> THEN <<"fold">> ELSE <<>>) \o <<"advance", "vacuum">>

\* The operations a call has completed when it ends at `stop`
StepOps(entities, buffered, ruminates, stop) ==
    (IF StopRank(stop) >= 2 THEN <<"next_turn">> ELSE <<>>)
    \o (IF StopRank(stop) >= 3 /\ entities # <<>> THEN <<"append">> ELSE <<>>)
    \o (IF StopRank(stop) >= 4 /\ ruminates THEN RuminationOps(buffered) ELSE <<>>)
    \o (IF StopRank(stop) >= 6 THEN <<"save_persona">> ELSE <<>>)
    \o (IF StopRank(stop) >= 8 THEN <<"save_counters">> ELSE <<>>)
    \o (IF StopRank(stop) >= 10 THEN <<"save_vectors">> ELSE <<>>)

\* One call step(user_message, session_id) that ends at `stop`
AgentStep(entities, session_id, stop) ==
    LET persona == load_persona(stableFile)
        vectors == load_vectors(vectorsFile)
        counters == load_counters(countersFile)
        turn == counters.current_turn + 1
        ruminates == Ruminates(counters)
        appended == IF entities # <<>>
                    THEN append_perceptions_to_buffer(bufferFile, entities, turn, session_id)
                    ELSE bufferFile
        buffered == IF ruminates THEN StepBatch(appended, counters, session_id) ELSE <<>>
        folds == StopRank(stop) >= 4 /\ ruminates /\ buffered # <<>>
        rank == StopRank(stop)
    IN  /\ countersFile.ok
        /\ InHorizon(turn)
        /\ stop # "return" => aborts < MaxAborts
        /\ aborts' = IF stop = "return" THEN aborts ELSE aborts + 1
        /\ stop = "append" => entities # <<>>
        /\ stop = "vacuum" => ruminates
        /\ countersFile' =
              IF rank = 1 \/ rank = 7 THEN TornCounters
              ELSE IF rank < 7 THEN NextTurnWritten(countersFile)
              ELSE WrittenCounters(StepCounters(counters))
        /\ bufferFile' =
              IF rank <= 2 THEN bufferFile
              ELSE IF rank = 3 \/ ~ruminates THEN appended
              ELSE StepVacuum(appended, turn)
        /\ stableFile' =
              IF rank <= 4 THEN stableFile
              ELSE IF rank = 5 THEN TornStable
              ELSE WrittenStable(StepPersona(persona, buffered, ruminates, turn))
        /\ vectorsFile' =
              IF rank <= 8 THEN vectorsFile
              ELSE IF rank = 9 THEN TornVectors
              ELSE WrittenVectors(vectors)
        /\ passed' = IF folds THEN passed (+) SetToBag(Range(buffered)) ELSE passed
        /\ last' = [stop |-> stop,
                    ops |-> StepOps(entities, buffered, ruminates, stop),
                    agg_turn |-> IF folds THEN turn ELSE 0,
                    buffer_appended |-> IF rank >= 3 /\ entities # <<>>
                                        THEN AppendedCount(entities) ELSE 0,
                    buffer_size |-> IF rank = 10
                                    THEN StepBufferSize(bufferFile', StepCounters(counters),
                                                        turn, session_id)
                                    ELSE 0]
        /\ UNCHANGED <<vac, log, fold, refl, ext>>

\* A call on a torn counters file: load_counters falls back to the default,
\* then _next_turn's json.load raises and the call ends with nothing written
StepOnTornCounters ==
    /\ ~countersFile.ok
    /\ \E session_id \in Sessions :
          last' = [stop |-> "next_turn_read",
                   ops |-> <<>>,
                   agg_turn |-> 0,
                   buffer_appended |-> 0,
                   buffer_size |-> 0]
    /\ UNCHANGED <<countersFile, stableFile, vectorsFile, bufferFile, passed, aborts, vac, log, fold, refl, ext>>

StepReturns ==
    \E entities \in PerceptionLists, session_id \in Sessions :
        AgentStep(entities, session_id, "return")

AbortInNextTurnWrite ==
    \E entities \in PerceptionLists, session_id \in Sessions :
        AgentStep(entities, session_id, "next_turn_write")

AbortInAnalyze ==
    \E entities \in PerceptionLists, session_id \in Sessions :
        AgentStep(entities, session_id, "analyze")

AbortAfterAppend ==
    \E entities \in PerceptionLists, session_id \in Sessions :
        AgentStep(entities, session_id, "append")

AbortAfterVacuum ==
    \E entities \in PerceptionLists, session_id \in Sessions :
        AgentStep(entities, session_id, "vacuum")

AbortInStableWrite ==
    \E entities \in PerceptionLists, session_id \in Sessions :
        AgentStep(entities, session_id, "stable_write")

AbortAfterSavePersona ==
    \E entities \in PerceptionLists, session_id \in Sessions :
        AgentStep(entities, session_id, "save_persona")

AbortInCountersWrite ==
    \E entities \in PerceptionLists, session_id \in Sessions :
        AgentStep(entities, session_id, "counters_write")

AbortAfterSaveCounters ==
    \E entities \in PerceptionLists, session_id \in Sessions :
        AgentStep(entities, session_id, "save_counters")

AbortInVectorsWrite ==
    \E entities \in PerceptionLists, session_id \in Sessions :
        AgentStep(entities, session_id, "vectors_write")

----------------------------------------------------------------------------
(* The vacuum harness: vacuum_buffer_keep_recent on an arbitrary turn-ordered log *)

VacIdle == [phase |-> "idle", file |-> <<>>, keep |-> 0, cap |-> 0, out |-> <<>>]

\* A harness record: only the turn decides what compaction does with it
VacRecord(turn, k) ==
    [turn |-> turn, session_id |-> "s1", entity_type |-> "person", entity |-> "mom",
     dimension_values |-> [warmth |-> 1000 * k], confidence |-> 9000]

\* The logs of the harness: turns non-decreasing in file order, as appends
\* with an increasing turn counter leave them; record i carries payload i
VacLogs ==
    UNION {{[i \in 1..n |-> VacRecord(t[i], i)] :
               t \in {u \in [1..n -> 0..MaxVacTurn] :
                         \A i \in 1..n : \A j \in i..n : u[i] <= u[j]}} :
           n \in 0..MaxVacLen}

VacuumCall ==
    /\ vac.phase = "input"
    /\ vac' = [vac EXCEPT
                 !.phase = "done",
                 !.out = vacuum_buffer_keep_recent(vac.file, vac.keep, vac.cap)]
    /\ UNCHANGED <<sysVars, log, fold, refl, ext>>

----------------------------------------------------------------------------
(* The text harness: the buffer file and its .tmp sibling under appends,    *)
(* appends cut short by a crash, scans, and the steps of a compaction       *)

NoTmp == [state |-> "absent", lines |-> <<>>]

\* file   the lines at memory/perception_buffer.jsonl
\* open   the file does not end with a newline (its last line is a torn tail)
\* tmp    memory/perception_buffer.tmp
\* pc     where a vacuum_buffer_keep_recent call in progress stands
\* kept   the lines that call is writing
\* op and the fields after it describe the most recent operation
LogIdle ==
    [file |-> <<>>, open |-> FALSE, tmp |-> NoTmp, pc |-> "idle", kept |-> <<>>,
     keep_turn_greater_than |-> 0, max_lines_keep |-> 0,
     op |-> "none", min_turn_exclusive |-> 0, max_turn_inclusive |-> 0,
     session_id |-> NoSession, out |-> <<>>, raised |-> FALSE, n |-> 0, turn |-> 0]

\* The fields that describe the most recent operation, reset; the arguments
\* of a compaction are kept while it is in progress
LogOp(op) ==
    [log EXCEPT !.op = op, !.min_turn_exclusive = 0, !.max_turn_inclusive = 0,
                !.session_id = NoSession, !.out = <<>>, !.raised = FALSE, !.n = 0,
                !.keep_turn_greater_than = IF log.pc = "idle" THEN 0 ELSE @,
                !.max_lines_keep = IF log.pc = "idle" THEN 0 ELSE @]

\* The most recent operation was a scan.  A scan changes no file, so what the
\* writer does after it is what it does from the state before the scan: the
\* model follows a scan only by its repetition with the same arguments.
AfterScan == log.op = "read"

LogPerceptionLists == {<<ObsWarm>>, <<ObsWarm, ObsPark>>}

\* The lines append_perceptions_to_buffer writes for a list of perceptions
WrittenLines(perceptions, turn, session_id) ==
    [i \in 1..Len(perceptions) |->
        RecordLine(AppendedLines(perceptions, turn, session_id)[i])]

\* append_perceptions_to_buffer returns.  Agent.step appends once per turn,
\* so the turns of successive appends increase.
LogAppend ==
    \E perceptions \in LogPerceptionLists, turn \in 1..MaxLogTurn, session_id \in Sessions :
        /\ log.pc = "idle"
        /\ ~AfterScan
        /\ turn > log.turn
        /\ log' = [LogOp("append") EXCEPT
                      !.file = AppendText(log.file, log.open,
                                          WrittenLines(perceptions, turn, session_id)),
                      !.open = FALSE,
                      !.n = AppendedCount(perceptions),
                      !.turn = turn]
        /\ UNCHANGED <<sysVars, vac, fold, refl, ext>>

\* The process dies inside append_perceptions_to_buffer: the first k records
\* are on disk and so is a part of the text of the next one, cut either
\* inside the JSON text (tail = "unparsable") or just before its newline
\* (tail = "record")
LogAppendCrash ==
    \E perceptions \in LogPerceptionLists, turn \in 1..MaxLogTurn,
       session_id \in Sessions, tail \in {"unparsable", "record"} :
        \E k \in 0..(Len(perceptions) - 1) :
            LET written == WrittenLines(perceptions, turn, session_id)
            IN  /\ log.pc = "idle"
                /\ ~AfterScan
                /\ turn > log.turn
                /\ log' = [LogOp("append_crash") EXCEPT
                              !.file = AppendText(log.file, log.open,
                                          SubSeq(written, 1, k)
                                            \o <<Line(tail, written[k + 1].rec)>>),
                              !.open = TRUE,
                              !.turn = turn]
                /\ UNCHANGED <<sysVars, vac, fold, refl, ext>>

\* read_buffered_perceptions, by this process between two operations or by
\* another one while a compaction is in progress; the latter scans the whole
\* file
LogRead ==
    \E min_turn_exclusive \in 0..MaxLogTurn, max_turn_inclusive \in 0..MaxLogTurn,
       session_id \in {"s1", NoSession} :
        /\ min_turn_exclusive <= max_turn_inclusive
        /\ log.pc # "idle" =>
              /\ min_turn_exclusive = 0
              /\ max_turn_inclusive = MaxLogTurn
              /\ session_id = NoSession
        /\ AfterScan =>
              /\ min_turn_exclusive = log.min_turn_exclusive
              /\ max_turn_inclusive = log.max_turn_inclusive
              /\ session_id = log.session_id
        /\ log' = [LogOp("read") EXCEPT
                      !.min_turn_exclusive = min_turn_exclusive,
                      !.max_turn_inclusive = max_turn_inclusive,
                      !.session_id = session_id,
                      !.raised = ScanRaises(log.file),
                      !.out = IF ScanRaises(log.file) THEN <<>>
                              ELSE read_buffered_perceptions(DecodedRecords(log.file),
                                       min_turn_exclusive, max_turn_inclusive, session_id)]
        /\ UNCHANGED <<sysVars, vac, fold, refl, ext>>

\* Mutant of FileDuringTmpWrite: the new text is written to the log path itself
FileDuringTmpWrite_InPlace(file, partial) == partial

\* The log path while tmp.write_text is in progress: tmp is another path
FileDuringTmpWrite(file, partial) == file

\* The lines vacuum_buffer_keep_recent writes: kept holds the text of the
\* lines whose record passed
KeptLines(lines, keep_turn_greater_than, max_lines_keep) ==
    LET kept == vacuum_buffer_keep_recent(DecodedRecords(lines),
                                          keep_turn_greater_than, max_lines_keep)
    IN  [i \in 1..Len(kept) |-> RecordLine(kept[i])]

\* vacuum_buffer_keep_recent up to the point where tmp.write_text has written
\* the first j lines; a scan that raises ends the call before tmp is opened
LogVacuumBegin ==
    \E keep_turn_greater_than \in 0..MaxLogTurn, max_lines_keep \in 1..MaxLogCap :
        LET kept == KeptLines(log.file, keep_turn_greater_than, max_lines_keep)
        IN  /\ log.pc = "idle"
            /\ ~AfterScan
            /\ IF ScanRaises(log.file)
               THEN log' = [LogOp("vacuum") EXCEPT !.raised = TRUE]
               ELSE \E j \in 0..Max(0, Len(kept) - 1) :
                       log' = [LogOp("vacuum") EXCEPT
                                 !.pc = "tmp_write",
                                 !.kept = kept,
                                 !.keep_turn_greater_than = keep_turn_greater_than,
                                 !.max_lines_keep = max_lines_keep,
                                 !.tmp = [state |-> "partial", lines |-> SubSeq(kept, 1, j)],
                                 !.file = FileDuringTmpWrite(log.file, SubSeq(kept, 1, j))]
            /\ UNCHANGED <<sysVars, vac, fold, refl, ext>>

\* tmp.write_text returns
LogVacuumTmpWritten ==
    /\ log.pc = "tmp_write"
    /\ ~AfterScan
    /\ log' = [LogOp("vacuum") EXCEPT
                  !.pc = "tmp_written",
                  !.tmp = [state |-> "complete", lines |-> log.kept]]
    /\ UNCHANGED <<sysVars, vac, fold, refl, ext>>

\* tmp.replace(path): the rename puts the tmp file at the log path
LogVacuumReplace ==
    /\ log.pc = "tmp_written"
    /\ ~AfterScan
    /\ log' = [LogOp("vacuum") EXCEPT
                  !.pc = "idle",
                  !.file = log.tmp.lines,
                  !.open = FALSE,
                  !.tmp = NoTmp]
    /\ UNCHANGED <<sysVars, vac, fold, refl, ext>>

\* append_perceptions_to_buffer by another process on the same persona
\* directory, while a compaction stands between its scan and its replace:
\* neither function takes a lock, and open(path, "a") writes to the file
\* that is at the log path
LogAppendDuringVacuum ==
    \E perceptions \in LogPerceptionLists, turn \in 1..MaxLogTurn, session_id \in Sessions :
        /\ log.pc \in {"tmp_write", "tmp_written"}
        /\ ~AfterScan
        /\ turn > log.turn
        /\ log' = [LogOp("append") EXCEPT
                      !.file = AppendText(log.file, log.open,
                                          WrittenLines(perceptions, turn, session_id)),
                      !.open = FALSE,
                      !.n = AppendedCount(perceptions),
                      !.turn = turn]
        /\ UNCHANGED <<sysVars, vac, fold, refl, ext>>

\* The process dies inside vacuum_buffer_keep_recent; the files stay as they are
LogCrash ==
    /\ log.pc # "idle"
    /\ ~AfterScan
    /\ log' = [LogOp("crash") EXCEPT !.pc = "idle", !.kept = <<>>]
    /\ UNCHANGED <<sysVars, vac, fold, refl, ext>>

----------------------------------------------------------------------------
(* The fold harness: ConsolidationEngine.run on one observation at a time,  *)
(* whatever the producer supplies                                           *)

\* The belief namespaces create_persona.py writes, of which the model uses two
InitialBeliefs == [t \in {"place", "person"} |-> EmptyMap]

\* Dimension values: 0.2 and 0.5 and 0.9 in range, -3.0 and 2.5 out of range
FoldDimValues ==
    {[warmth |-> v] : v \in {-30000, 2000, 5000, 9000, 25000}}
    \cup {[warmth |-> 9000, respect |-> 2000]}

\* Confidences: 0.5 and 0.8 in range, -0.1 and 1.5 out of range
FoldConfidences == {-1000, 5000, 8000, 15000}

FoldObservations ==
    {[entity_type |-> t, entity |-> e, dimension_values |-> dv, confidence |-> c] :
        t \in {"person", "people"}, e \in {"mom", "Mom", "  "},
        dv \in FoldDimValues, c \in FoldConfidences}

\* beliefs  the belief store (persona["stable"]["beliefs"])
\* obs      the observation of the most recent run, turn its turn
\* calls    the number of runs so far
FoldIdle ==
    [beliefs |-> InitialBeliefs, obs |-> ObsWarm, turn |-> 0, calls |-> 0]

\* consolidation.run(persona, [obs], turn)
FoldStep(obs) ==
    /\ fold' = [beliefs |-> ConsolidationRun(fold.beliefs, <<obs>>, fold.calls + 1),
                obs |-> obs,
                turn |-> fold.calls + 1,
                calls |-> fold.calls + 1]
    /\ UNCHANGED <<sysVars, vac, log, refl, ext>>

\* One of at most MaxFolds runs
FoldOf(obs) ==
    /\ fold.calls < MaxFolds
    /\ FoldStep(obs)

FoldCall == \E obs \in FoldObservations : FoldOf(obs)

\* Observations of one person under several spellings of her name and of
\* another name; each spelling comes with a warmth of its own
NameObservations ==
    {[entity_type |-> "person", entity |-> sp[1],
      dimension_values |-> [warmth |-> sp[2]], confidence |-> 8000] :
        sp \in {<<"mom", 9000>>, <<"Mom", -9000>>, <<" mom ", 5000>>, <<" MOM", -5000>>,
                <<"mo m", 9000>>, <<"  ", 9000>>}}

\* consolidation.run on an observation under one of the spellings
NameFold == \E obs \in NameObservations : FoldOf(obs)

\* Observations of one person under the singular entity type, with values
\* on either side of Gate B (0.2 against 0.45, 0.5, 0.9) in one or two
\* dimensions and confidences on either side of Gate A (0.5, 0.9)
GateObservations ==
    {[entity_type |-> "person", entity |-> "mom", dimension_values |-> dv, confidence |-> c] :
        dv \in {[warmth |-> 9000], [warmth |-> -9000], [warmth |-> 2000],
                [warmth |-> 9000, respect |-> 2000],
                [warmth |-> 5000, respect |-> 9000]},
        c \in {5000, 9000}}

\* consolidation.run on one of these observations
GateFold == \E obs \in GateObservations : FoldOf(obs)

----------------------------------------------------------------------------
(* The reflection harness: ReflectionEngine.run on belief stores that hold  *)
(* the fields of a belief dimension, with folds in between                  *)

\* A belief dimension without baseline fields, as ConsolidationEngine leaves it
DimBlock(mean, confidence, n) ==
    [mean |-> mean, confidence |-> confidence, n |-> n, last_updated_turn |-> 0]

\* A belief dimension anchored at baseline_mean
AnchoredBlock(mean, confidence, n, baseline_mean) ==
    [mean |-> mean, confidence |-> confidence, n |-> n, last_updated_turn |-> 0,
     baseline_mean |-> baseline_mean, baseline_turn |-> 0]

\* Warmth beliefs on either side of each threshold: drift 0.8 or 0.25 or 0.2,
\* confidence 0.8 or 0.7 or 0.5, n 12 or 10 or 9, and one without baseline
ReflectBlocks ==
    { AnchoredBlock(9000, 8000, 12, 1000),
      AnchoredBlock(-9000, ScaleOne, 12, 1000),
      AnchoredBlock(5000, 7000, 10, 2500),
      AnchoredBlock(9000, 5000, 12, 1000),
      AnchoredBlock(9000, 8000, 9, 1000),
      AnchoredBlock(3000, 8000, 12, 1000),
      DimBlock(9000, 8000, 12) }

\* The belief stores of the harness: mom's warmth is any of the blocks, dad
\* is unknown or has one of three; mom's respect and the park's warmth are
\* no source of trust
ReflectStores ==
    LET others == [respect |-> AnchoredBlock(9000, 8000, 12, 1000)]
        park == [warmth |-> AnchoredBlock(9000, 8000, 12, 1000)]
        moms == {[warmth |-> b, respect |-> others.respect] : b \in ReflectBlocks}
        dads == {[warmth |-> AnchoredBlock(9000, 8000, 12, 1000)],
                 [warmth |-> AnchoredBlock(-9000, ScaleOne, 12, 1000)],
                 [warmth |-> AnchoredBlock(9000, 5000, 12, 1000)]}
    IN  {[place |-> [park |-> park], person |-> [mom |-> m]] : m \in moms}
        \cup {[place |-> [park |-> park], person |-> [mom |-> m, dad |-> d]] :
                 m \in moms, d \in dads}
        \cup {[place |-> [park |-> park], person |-> EmptyMap]}

\* stable["trait_vector"]: without trust, or trust at -1, 0, 0.5 or 1
ReflectTraitVectors ==
    {EmptyMap} \cup {[trust |-> t] : t \in {-ScaleOne, 0, 5000, ScaleOne}}

\* The observations folded between reflections: they move mom's warmth, or
\* name her under the plural namespace
ReflectObservations ==
    {[entity_type |-> "person", entity |-> "mom",
      dimension_values |-> [warmth |-> v], confidence |-> 8000] : v \in {-9000, 9000}}
    \cup {[entity_type |-> "people", entity |-> "mom",
            dimension_values |-> [warmth |-> 9000], confidence |-> 8000]}

\* trait_vector  stable["trait_vector"]
\* audit         memory/reflection_log.jsonl
\* returned      what the most recent run returned, turn its turn
\* calls         the number of runs so far
ReflIdle ==
    [trait_vector |-> EmptyMap, audit |-> <<>>, returned |-> FALSE, turn |-> 0, calls |-> 0]

\* reflection.run(persona, turn)
ReflectCall ==
    LET turn == fold.calls + refl.calls + 1
        run == ReflectionRun(fold.beliefs, refl.trait_vector, turn)
    IN  /\ refl.calls < MaxReflects
        /\ fold' = [fold EXCEPT !.beliefs = run.beliefs]
        /\ refl' = [trait_vector |-> run.trait_vector,
                    audit |-> Append(refl.audit, run.entry),
                    returned |-> run.returned,
                    turn |-> turn,
                    calls |-> refl.calls + 1]
        /\ UNCHANGED <<sysVars, vac, log, ext>>

\* consolidation.run between two reflections
ReflectFold == \E obs \in ReflectObservations : FoldOf(obs)

\* The most folds before the Drift Engine runs: one more than MIN_OBS
MaxDriftFolds == 11

\* Observations of mom's warmth at full confidence, 0.9 or -0.9: ten admitted
\* folds take a new belief to n = 10 and confidence 0.7
DriftObservations ==
    {[entity_type |-> "person", entity |-> "mom",
      dimension_values |-> [warmth |-> v], confidence |-> ScaleOne] : v \in {-9000, 9000}}

\* consolidation.run, as long as the Drift Engine has not run
DriftFold ==
    \E obs \in DriftObservations :
        /\ fold.calls < MaxDriftFolds
        /\ refl.calls = 0
        /\ FoldStep(obs)

----------------------------------------------------------------------------
(* The extraction harness: _extract_function_args on responses of up to     *)
(* MaxOutputLen items                                                       *)

MaxOutputLen == 2

\* Sequences over a set, up to a length
RECURSIVE SeqsUpTo(_, _)
SeqsUpTo(set, n) ==
    IF n = 0 THEN {<<>>}
    ELSE SeqsUpTo(set, n - 1) \cup {Append(seq, x) : seq \in SeqsUpTo(set, n - 1), x \in set}

\* An element of an item's content
ContentElement(type, name, arguments) ==
    [type |-> type, name |-> name, arguments |-> arguments]

\* An item of response.output
OutputItem(type, name, arguments, content) ==
    [type |-> type, name |-> name, arguments |-> arguments, content |-> content]

\* What a message holds: nothing, text, a call of the tool with a dict or
\* with a text that is no JSON, a call of another function before it
MessageContents ==
    LET text == ContentElement("output_text", "", AbsentArgs)
        tool_dict == ContentElement("tool_call", ToolName, DictArgs(NoEntities))
        tool_cut == ContentElement("function_call", ToolName, StrArgs("{\"entities\": ["))
        other == ContentElement("tool_call", "other_tool", DictArgs(ArgsCafe))
    IN  { <<>>, <<text>>, <<tool_dict>>, <<text, other>>,
          <<other, tool_dict>>, <<tool_cut, tool_dict>> }

\* Items: calls of the tool with arguments of each kind, a call of another
\* function, a call of the tool under another type, and messages
OutputItems ==
    { OutputItem("function_call", ToolName, StrArgs("{\"entities\": [\"park\"]}"), <<>>),
      OutputItem("tool_call", ToolName, DictArgs(ArgsPark), <<>>),
      OutputItem("function_call", ToolName, StrArgs("{\"entities\": [\"par"), <<>>),
      OutputItem("function_call", ToolName, NoneArgs, <<>>),
      OutputItem("function_call", ToolName, AbsentArgs, <<>>),
      OutputItem("function_call", "other_tool", StrArgs("{\"entities\": [\"cafe\"]}"), <<>>),
      OutputItem("reasoning", ToolName, DictArgs(ArgsCafe), <<>>) }
    \cup {OutputItem("message", "", AbsentArgs, content) : content \in MessageContents}

\* The responses of the harness; output_text is JSON or is not
Responses ==
    {[output |-> output, output_text |-> text] :
        output \in SeqsUpTo(OutputItems, MaxOutputLen),
        text \in {"{\"entities\": [\"cafe\"]}", "I saw a park."}}

\* response  the response at hand, args what the call returned for it
ExtIdle ==
    [response |-> [output |-> <<>>, output_text |-> ""], args |-> NoEntities, called |-> FALSE]

\* args = self._extract_function_args(response)
ExtractCall ==
    /\ ~ext.called
    /\ ext' = [ext EXCEPT !.args = extract_function_args(ext.response), !.called = TRUE]
    /\ UNCHANGED <<sysVars, vac, log, fold, refl>>

----------------------------------------------------------------------------
(* Specifications *)

\* The files as create_persona.py leaves them, with a configured window
InitSystem ==
    /\ \E w \in 1..MaxWindow :
          countersFile = WrittenCounters([DefaultCounters EXCEPT !.rumination_window_size = w])
    /\ stableFile = WrittenStable([beliefs |-> InitialBeliefs, applied |-> {}])
    /\ vectorsFile = WrittenVectors("created")
    /\ bufferFile = <<>>
    /\ passed = EmptyBag
    /\ aborts = 0
    /\ last = [stop |-> "none", ops |-> <<>>,
               agg_turn |-> 0, buffer_appended |-> 0, buffer_size |-> 0]

Init ==
    InitSystem /\ vac = VacIdle /\ log = LogIdle /\ fold = FoldIdle /\ refl = ReflIdle /\ ext = ExtIdle

Next ==
    \/ StepReturns
    \/ AbortInNextTurnWrite
    \/ AbortInAnalyze
    \/ AbortAfterAppend
    \/ AbortAfterVacuum
    \/ AbortInStableWrite
    \/ AbortAfterSavePersona
    \/ AbortInCountersWrite
    \/ AbortAfterSaveCounters
    \/ AbortInVectorsWrite
    \/ StepOnTornCounters

Spec == Init /\ [][Next]_vars

\* Crash-free operation: every call returns
InitCrashFree == Init

NextCrashFree == StepReturns

SpecCrashFree == InitCrashFree /\ [][NextCrashFree]_vars

\* Crash-free operation with a window of MaxWindow + 1 turns, the files
\* otherwise as create_persona.py leaves them: several steps in a row that
\* do not ruminate
InitLongWindow ==
    /\ countersFile = WrittenCounters(
            [DefaultCounters EXCEPT !.rumination_window_size = MaxWindow + 1])
    /\ stableFile = WrittenStable([beliefs |-> InitialBeliefs, applied |-> {}])
    /\ vectorsFile = WrittenVectors("created")
    /\ bufferFile = <<>>
    /\ passed = EmptyBag
    /\ aborts = 0
    /\ last = [stop |-> "none", ops |-> <<>>,
               agg_turn |-> 0, buffer_appended |-> 0, buffer_size |-> 0]
    /\ vac = VacIdle
    /\ log = LogIdle
    /\ fold = FoldIdle
    /\ refl = ReflIdle
    /\ ext = ExtIdle

SpecLongWindow == InitLongWindow /\ [][NextCrashFree]_vars

\* Files that have been in use for AgedTurn turns: session s1 reported
\* <<ObsWarm, ObsPark>> in turn 1 and nothing was perceived since, every call
\* having returned.  With window 1 every turn ruminated; with a window above
\* AgedTurn none has yet.
AgedBatch == AppendedLines(<<ObsWarm, ObsPark>>, 1, "s1")

InitAged ==
    /\ \/ /\ countersFile = WrittenCounters(
                  [current_turn |-> AgedTurn,
                   last_rumination_turn |-> AgedTurn,
                   rumination_window_size |-> 1,
                   turns_since_last_rumination |-> 0,
                   last_buffer_committed_turn |-> AgedTurn])
          /\ stableFile = WrittenStable(
                  [beliefs |-> ConsolidationRun(InitialBeliefs, AgedBatch, 1),
                   applied |-> Range(AgedBatch)])
          /\ passed = SetToBag(Range(AgedBatch))
          /\ last = [stop |-> "return",
                     ops |-> StepOps(<<>>, <<>>, TRUE, "return"),
                     agg_turn |-> 0, buffer_appended |-> 0, buffer_size |-> 0]
       \/ /\ countersFile = WrittenCounters(
                  [current_turn |-> AgedTurn,
                   last_rumination_turn |-> 0,
                   rumination_window_size |-> RetentionTurns + 1,
                   turns_since_last_rumination |-> AgedTurn,
                   last_buffer_committed_turn |-> 0])
          /\ stableFile = WrittenStable([beliefs |-> InitialBeliefs, applied |-> {}])
          /\ passed = EmptyBag
          /\ last = [stop |-> "return",
                     ops |-> StepOps(<<>>, <<>>, FALSE, "return"),
                     agg_turn |-> 0, buffer_appended |-> 0, buffer_size |-> 0]
    /\ vectorsFile = WrittenVectors("created")
    /\ bufferFile = AgedBatch
    /\ aborts = 0
    /\ vac = VacIdle
    /\ log = LogIdle
    /\ fold = FoldIdle
    /\ refl = ReflIdle
    /\ ext = ExtIdle

SpecAged == InitAged /\ [][Next]_vars

\* The compaction function on its own
InitVacuum ==
    /\ InitSystem
    /\ countersFile.data.rumination_window_size = 1
    /\ \E file \in VacLogs, keep \in 0..MaxVacTurn, cap \in 0..MaxVacCap :
          vac = [phase |-> "input", file |-> file, keep |-> keep, cap |-> cap, out |-> <<>>]
    /\ log = LogIdle
    /\ fold = FoldIdle
    /\ refl = ReflIdle
    /\ ext = ExtIdle

NextVacuum == VacuumCall

SpecVacuum == InitVacuum /\ [][NextVacuum]_vars

\* The buffer file as the program's own writes leave it, from the empty file
\* create_persona.py creates
InitLog ==
    /\ InitSystem
    /\ countersFile.data.rumination_window_size = 1
    /\ vac = VacIdle
    /\ log = LogIdle
    /\ fold = FoldIdle
    /\ refl = ReflIdle
    /\ ext = ExtIdle

NextLog ==
    \/ LogAppend
    \/ LogAppendCrash
    \/ LogRead
    \/ LogVacuumBegin
    \/ LogVacuumTmpWritten
    \/ LogVacuumReplace
    \/ LogCrash

SpecLog == InitLog /\ [][NextLog]_vars

\* Two processes on one buffer file: appends, and compactions during which
\* the other process appends
InitRace == InitLog

NextRace ==
    \/ LogAppend
    \/ LogVacuumBegin
    \/ LogVacuumTmpWritten
    \/ LogVacuumReplace
    \/ LogAppendDuringVacuum

SpecRace == InitRace /\ [][NextRace]_vars

\* The aggregator on its own, from the belief store create_persona.py writes
InitFold ==
    /\ InitSystem
    /\ countersFile.data.rumination_window_size = 1
    /\ vac = VacIdle
    /\ log = LogIdle
    /\ fold = FoldIdle
    /\ refl = ReflIdle
    /\ ext = ExtIdle

NextFold == FoldCall

SpecFold == InitFold /\ [][NextFold]_vars

\* The aggregator, then the Drift Engine, from the belief store
\* create_persona.py writes
InitDrift == InitFold

NextDrift ==
    \/ DriftFold
    \/ ReflectCall

SpecDrift == InitDrift /\ [][NextDrift]_vars

\* The aggregator on observations that spell one name in several ways
InitNames == InitFold

NextNames == NameFold

SpecNames == InitNames /\ [][NextNames]_vars

\* The store create_persona.py writes, and a store that already holds a
\* warmth belief about mom that no observation has been folded into yet
GateStores ==
    {InitialBeliefs,
     [place |-> EmptyMap,
      person |-> [mom |-> [warmth |-> DimBlock(8000, InitialConfidence, 0)]]]}

\* The aggregator on the observations of GateObservations, from either store
InitGates ==
    /\ InitSystem
    /\ countersFile.data.rumination_window_size = 1
    /\ vac = VacIdle
    /\ log = LogIdle
    /\ fold \in {[FoldIdle EXCEPT !.beliefs = store] : store \in GateStores}
    /\ refl = ReflIdle
    /\ ext = ExtIdle

NextGates == GateFold

SpecGates == InitGates /\ [][NextGates]_vars

\* The Drift Engine and the aggregator on belief stores with baselines
InitReflect ==
    /\ InitSystem
    /\ countersFile.data.rumination_window_size = 1
    /\ vac = VacIdle
    /\ log = LogIdle
    /\ \E store \in ReflectStores : fold = [FoldIdle EXCEPT !.beliefs = store]
    /\ \E trait_vector \in ReflectTraitVectors :
          refl = [ReflIdle EXCEPT !.trait_vector = trait_vector]
    /\ ext = ExtIdle

NextReflect ==
    \/ ReflectCall
    \/ ReflectFold

SpecReflect == InitReflect /\ [][NextReflect]_vars

\* _extract_function_args on its own, on any response of the harness
InitExtract ==
    /\ InitSystem
    /\ countersFile.data.rumination_window_size = 1
    /\ vac = VacIdle
    /\ log = LogIdle
    /\ fold = FoldIdle
    /\ refl = ReflIdle
    /\ ext \in {[ExtIdle EXCEPT !.response = response] : response \in Responses}

NextExtract == ExtractCall

SpecExtract == InitExtract /\ [][NextExtract]_vars

\* The scans of read_buffered_perceptions and vacuum_buffer_keep_recent as
\* functions of the file they find: any text, whoever wrote it
ScanLines ==
    {Line("record", BufferRecord(ObsWarm, turn, "s1")) : turn \in 1..MaxLogTurn}
    \cup {Line(kind, BufferRecord(ObsWarm, 1, "s1")) :
             kind \in {"blank", "unparsable", "non_dict", "bad_turn"}}
    \cup {Line("no_turn", BufferRecord(ObsWarm, NoTurn, NoSession))}

InitScan ==
    /\ InitSystem
    /\ countersFile.data.rumination_window_size = 1
    /\ vac = VacIdle
    /\ \E n \in 0..MaxScanLen : \E file \in [1..n -> ScanLines] :
          log = [LogIdle EXCEPT !.file = file]
    /\ fold = FoldIdle
    /\ refl = ReflIdle
    /\ ext = ExtIdle

NextScan ==
    \/ LogRead
    \/ LogVacuumBegin
    \/ LogVacuumTmpWritten
    \/ LogVacuumReplace
    \/ LogCrash

SpecScan == InitScan /\ [][NextScan]_vars

----------------------------------------------------------------------------
(* Properties *)

\* The commit cursor as a call of load_counters sees it
Cursor == load_counters(countersFile).last_buffer_committed_turn

\* The operations of the rumination block among the operations of a call
RuminationPart(ops) ==
    SelectSeq(ops, LAMBDA o : o \in {"read", "fold", "advance", "reflect", "vacuum"})

\* The stops at which save_counters has not completed
StopsBeforeCountersSaved ==
    {"next_turn_write", "analyze", "append", "vacuum", "stable_write", "save_persona",
     "counters_write"}

\* C1: a call that ruminates and returns has read the pending range, folded it
\* (when it is not empty), advanced the cursor, run the Drift Engine once and
\* compacted the log, in this order.
C1_RuminationRunsDriftEngine ==
    (last.stop = "return" /\ "advance" \in Range(last.ops))
        => RuminationPart(last.ops) \in
              {<<"read", "fold", "advance", "reflect", "vacuum">>,
               <<"read", "advance", "reflect", "vacuum">>}

\* C2: every record of the log whose turn is at most the cursor has been in a
\* batch handed to the aggregator, whatever its session.
C2_CommittedRecordsWerePassed ==
    \A i \in DOMAIN bufferFile :
        bufferFile[i].turn <= Cursor => BagIn(bufferFile[i], passed)

\* C3: when every call returns, no log record is handed to the aggregator
\* more than once.
C3_NoRecordPassedTwice ==
    \A r \in BagToSet(passed) : CopiesIn(r, passed) = 1

\* C3 witness: the aggregator has just been handed a batch, and an earlier
\* rumination had handed it a record of an earlier window.
C3_Witness ==
    /\ last.agg_turn > 0
    /\ \E r \in BagToSet(passed) :
          r.turn + countersFile.data.rumination_window_size <= last.agg_turn

\* C4: over any sequence of calls, returned or aborted, the cursor stored in a
\* readable counters file never decreases.
C4_CursorMonotone ==
    [][countersFile'.ok =>
          load_counters(countersFile').last_buffer_committed_turn >= Cursor]_vars

\* C4 witness: the cursor has advanced more than once and a call has aborted.
C4_Witness == countersFile.ok /\ Cursor >= 2 /\ aborts >= 1

C6_AbortKeepsCursorAndPending ==
    [][(last'.stop \in StopsBeforeCountersSaved /\ countersFile.ok /\ countersFile'.ok)
        => /\ load_counters(countersFile').last_buffer_committed_turn = Cursor
           /\ \A i \in DOMAIN bufferFile :
                 bufferFile[i].turn > Cursor => bufferFile[i] \in Range(bufferFile')]_vars

\* C7: the persisted cursor is never past a log record whose fold is not in
\* the persisted belief store.
C7_CursorNeverPastUnfoldedRecord ==
    countersFile.ok =>
        \A i \in DOMAIN bufferFile :
            bufferFile[i].turn <= Cursor
                => bufferFile[i] \in load_persona(stableFile).applied

\* C8: after a call that ended inside save_persona, save_counters or
\* save_vectors, each of the three files holds a complete content, the
\* previous or the new one, so that no load falls back to its default.
C8_SaveWritesAreAtomic ==
    last.stop \in {"stable_write", "counters_write", "vectors_write"}
        => countersFile.ok /\ stableFile.ok /\ vectorsFile.ok

\* The records of the harness log that pass the turn bound
VacPassing == SelectSeq(vac.file, LAMBDA rec : rec.turn > vac.keep)

C10_CompactExact ==
    vac.phase = "done" =>
        vac.out = IF Len(VacPassing) > vac.cap
                  THEN SubSeq(VacPassing, Len(VacPassing) - vac.cap + 1, Len(VacPassing))
                  ELSE VacPassing

\* C10 holds of every call with max_lines_keep >= 1: the divergence is at 0
C10_CompactExactPositiveCap == vac.cap >= 1 => C10_CompactExact

\* The complete rewritten log of a compaction of `lines`: the lines that hold
\* a record with turn above the bound, the last max_lines_keep of them
RewrittenLog(lines, keep_turn_greater_than, max_lines_keep) ==
    LET passing == SelectSeq(lines, LAMBDA l :
                       l.kind = "record" /\ l.rec.turn > keep_turn_greater_than)
    IN  IF Len(passing) > max_lines_keep
        THEN SubSeq(passing, Len(passing) - max_lines_keep + 1, Len(passing))
        ELSE passing

\* C11: every step of a compaction, and a crash inside it, leaves at the log
\* path either the complete old log or the complete rewritten log; so that is
\* what a reader or a recovery finds there, never a partially written file.
C11_CompactionIsAtomic ==
    [][(log.pc # "idle" \/ log'.pc # "idle") =>
          \/ log'.file = log.file /\ log'.open = log.open
          \/ /\ log'.file = RewrittenLog(log.file, log'.keep_turn_greater_than,
                                         log'.max_lines_keep)
             /\ ~log'.open]_vars

\* C11 witness: a reader scans the log path while the .tmp file is partly
\* written, the rewritten log being shorter than the old one.
C11_Witness ==
    /\ log.pc = "tmp_write"
    /\ log.op = "read"
    /\ log.tmp.state = "partial"
    /\ Len(log.kept) >= 2
    /\ Len(log.tmp.lines) = 1
    /\ Len(log.kept) < Len(log.file)
    /\ Len(log.out) = Len(log.file)

\* The records a scan of `lines` has to return: those of the lines that hold
\* a record of the range and of the session asked for, in file order
RecordsInRange(lines, min_turn_exclusive, max_turn_inclusive, session_id) ==
    LET asked == SelectSeq(lines, LAMBDA l :
                     /\ l.kind = "record"
                     /\ min_turn_exclusive < l.rec.turn
                     /\ l.rec.turn <= max_turn_inclusive
                     /\ (session_id = NoSession \/ l.rec.session_id = session_id))
    IN  [i \in 1..Len(asked) |-> asked[i].rec]

\* C12: read_range returns, in log order, exactly the records with
\* min_turn_exclusive < turn <= max_turn_inclusive and, when a session filter
\* is given, of that session; it leaves the log as it is, and a second call
\* with the same bounds right after it returns the same result.
C12_ReadRangeIsExactAndPure ==
    [][log'.op = "read" =>
          /\ ~log'.raised
          /\ log'.out = RecordsInRange(log.file, log'.min_turn_exclusive,
                                       log'.max_turn_inclusive, log'.session_id)
          /\ log'.file = log.file /\ log'.open = log.open /\ log'.tmp = log.tmp
          /\ (/\ log.op = "read"
              /\ log'.min_turn_exclusive = log.min_turn_exclusive
              /\ log'.max_turn_inclusive = log.max_turn_inclusive
              /\ log'.session_id = log.session_id) => log'.out = log.out]_vars

\* C12 witness: a read of (1, 2] for session s1 on a log that holds records of
\* turn 1, which the lower bound excludes, and records of turn 2 of session
\* s1, which are returned.
C12_Witness ==
    /\ log.op = "read"
    /\ log.min_turn_exclusive = 1 /\ log.max_turn_inclusive = 2 /\ log.session_id = "s1"
    /\ Len(log.out) = 2
    /\ \E i \in DOMAIN log.file : log.file[i].kind = "record" /\ log.file[i].rec.turn = 1

\* C13: a malformed line is never fatal: a read does not raise and returns
\* every well-formed record in range, and a compaction does not raise and
\* writes every well-formed record that passes its bounds.
C13_MalformedLineNeverFatal ==
    /\ log.op \in {"read", "vacuum"} => ~log.raised
    /\ log.op = "read" =>
          log.out = RecordsInRange(log.file, log.min_turn_exclusive,
                                   log.max_turn_inclusive, log.session_id)
    /\ (log.op = "vacuum" /\ log.pc = "tmp_write") =>
          log.kept = RewrittenLog(log.file, log.keep_turn_greater_than, log.max_lines_keep)

\* C13 holds of the files without a line that is JSON but no record with an
\* integer turn: blank lines, lines that are no JSON and JSON objects without
\* a turn are skipped.
C13_UndecodableLinesAreSkipped ==
    (\A i \in DOMAIN log.file : ~LineRaises(log.file[i])) => C13_MalformedLineNeverFatal

\* A scan that met a line which is no JSON next to a well-formed record and
\* returned that record
C13_SkippedWitness ==
    /\ log.op = "read"
    /\ \E i \in DOMAIN log.file : log.file[i].kind = "unparsable"
    /\ Len(log.out) >= 1

C15_AppendOnlyAndTurnOrdered ==
    [][/\ Len(bufferFile') = Len(bufferFile) + last'.buffer_appended
       /\ SubSeq(bufferFile', 1, Len(bufferFile)) = bufferFile
       /\ \A i \in DOMAIN bufferFile' : \A j \in DOMAIN bufferFile' :
             i <= j => bufferFile'[i].turn <= bufferFile'[j].turn]_vars

\* C15 witness: a call has appended two records of its turn behind the
\* records of an earlier turn.
C15_Witness ==
    /\ last.buffer_appended = 2
    /\ Len(bufferFile) >= 4
    /\ bufferFile[Len(bufferFile)].turn = bufferFile[Len(bufferFile) - 1].turn
    /\ bufferFile[1].turn < bufferFile[Len(bufferFile)].turn

\* Whether the call that led to this state ruminated
DidRuminate == \E i \in DOMAIN last.ops : last.ops[i] = "advance"

\* C16: a step ruminates exactly when turns_since_last_rumination, incremented
\* by the step, has reached the window W; a ruminating step leaves the counter
\* at 0 and any other step leaves it incremented; so the counter is within
\* [0, W-1] between steps and, from fresh counters, the ruminating steps are
\* exactly those whose turn is a multiple of W.
C16_RuminatesEveryWindowTurns ==
    [][LET before == countersFile.data
           after == countersFile'.data
           W == before.rumination_window_size
       IN  /\ DidRuminate' <=> before.turns_since_last_rumination + 1 >= W
           /\ after.turns_since_last_rumination =
                 IF DidRuminate' THEN 0 ELSE before.turns_since_last_rumination + 1
           /\ after.turns_since_last_rumination \in 0..(W - 1)
           /\ after.current_turn = before.current_turn + 1
           /\ DidRuminate' <=> after.current_turn % W = 0]_vars

\* C16 witness: with window 2, the step of turn 3 did not ruminate and left
\* the counter at 1 (the step of turn 4 then ruminates).
C16_Witness ==
    /\ countersFile.data.rumination_window_size = 2
    /\ countersFile.data.current_turn = 3
    /\ countersFile.data.turns_since_last_rumination = 1
    /\ countersFile.data.last_rumination_turn = 2
    /\ ~DidRuminate

\* The log records that are pending at the end of a step: turn above the
\* cursor the step leaves and not above the step's turn
PendingRecords ==
    SelectSeq(bufferFile, LAMBDA rec :
        Cursor < rec.turn /\ rec.turn <= countersFile.data.current_turn)

\* C17: the buffer_size a step returns is the number of log records with
\* turn above the cursor at the end of the step (and not above the step's
\* turn); it is 0 when the step ruminated.
C17_BufferSizeIsPendingCount ==
    last.stop = "return" =>
        /\ last.buffer_size = Len(PendingRecords)
        /\ DidRuminate => last.buffer_size = 0

\* C17 holds of the steps that appended and whose session wrote every pending
\* record: what a step counts is the pending records of its own session.
C17_BufferSizeOfOwnSession ==
    (/\ last.stop = "return"
     /\ \A i \in DOMAIN PendingRecords : \A j \in DOMAIN PendingRecords :
           PendingRecords[i].session_id = PendingRecords[j].session_id
     /\ last.buffer_appended > 0)
        => C17_BufferSizeIsPendingCount

\* The keys (entity_type, entity, dimension) under which a store holds a belief
BeliefKeys(beliefs) ==
    {<<t, e, d>> \in UNION {UNION {{<<t2, e2, d2>> : d2 \in DOMAIN beliefs[t2][e2]} :
                                     e2 \in DOMAIN beliefs[t2]} : t2 \in DOMAIN beliefs} : TRUE}

\* The belief dimension under a key
Belief(beliefs, key) == beliefs[key[1]][key[2]][key[3]]

\* C18: after any sequence of folds, of observations with dimension values
\* and confidences inside or outside their ranges, every belief's mean is
\* within [-1, 1] and its confidence within [0, 1].
C18_MeanAndConfidenceInRange ==
    \A key \in BeliefKeys(fold.beliefs) :
        /\ -ScaleOne <= Belief(fold.beliefs, key).mean
        /\ Belief(fold.beliefs, key).mean <= ScaleOne
        /\ 0 <= Belief(fold.beliefs, key).confidence
        /\ Belief(fold.beliefs, key).confidence <= ScaleOne

\* C18 witness: two folds of the value 2.5 with confidence 1.5 have driven a
\* mean to 1, where the clamp holds it, and the confidence above its initial 0.2.
C18_Witness ==
    /\ fold.obs.dimension_values = [warmth |-> 25000]
    /\ fold.obs.confidence = 15000
    /\ \E key \in BeliefKeys(fold.beliefs) :
          /\ Belief(fold.beliefs, key).n = 2
          /\ Belief(fold.beliefs, key).mean = ScaleOne
          /\ Belief(fold.beliefs, key).last_updated_turn = fold.turn
          /\ Belief(fold.beliefs, key).confidence > InitialConfidence

\* The key an observation updates for one of its dimensions
ObsKey(obs, d) == <<obs.entity_type, EntityKey(obs.entity), d>>

\* The statistics of a key in a store; those of a new dimension when absent
BeliefOrNew(beliefs, key) ==
    IF key \in BeliefKeys(beliefs) THEN Belief(beliefs, key) ELSE NewDimBlock(0)

\* An update of dimension d by obs is rejected by a gate: the confidence is
\* below min_obs_conf (A), the value is below min_abs_value (B), or the mean
\* would move by less than min_delta and the dimension has been updated (C);
\* an entity name that is blank is rejected before the gates
Rejected(beliefs, obs, d) ==
    LET old == BeliefOrNew(beliefs, ObsKey(obs, d))
        value == obs.dimension_values[d]
    IN  \/ obs.confidence < MinObsConf
        \/ EntityKey(obs.entity) = ""
        \/ Abs(value) < MinAbsValue
        \/ old.n > 0 /\ Abs(Proposed(old.mean, value) - old.mean) < MinDelta

\* What C19 says of a run that led from store `before` to store `after`
GateMonotone(before, after, obs) ==
    /\ \A d \in DOMAIN obs.dimension_values :
          LET key == ObsKey(obs, d)
          IN  IF Rejected(before, obs, d)
              THEN (key \in BeliefKeys(before) /\ key \in BeliefKeys(after)) =>
                      /\ Belief(after, key).mean = Belief(before, key).mean
                      /\ Belief(after, key).n = Belief(before, key).n
                      /\ Belief(after, key).last_updated_turn =
                            Belief(before, key).last_updated_turn
              ELSE /\ key \in BeliefKeys(after)
                   /\ Belief(after, key).n = BeliefOrNew(before, key).n + 1
    /\ \A key \in BeliefKeys(before) \cap BeliefKeys(after) :
          /\ Belief(after, key).n >= Belief(before, key).n
          /\ Belief(after, key).n # Belief(before, key).n =>
                \E d \in DOMAIN obs.dimension_values :
                    key = ObsKey(obs, d) /\ ~Rejected(before, obs, d)

\* C19: in every fold, an update that is admitted increases the dimension's n
\* by exactly 1 and an update that a gate rejects leaves the dimension's
\* mean, n and last_updated_turn as they were; no n decreases, and an n
\* changes only on admission.
C19_GateMonotonicity ==
    [][GateMonotone(fold.beliefs, fold'.beliefs, fold'.obs)]_vars

\* C19 holds of the folds in which the plural names the aggregator migrates
\* are neither in the store nor the observation's entity_type
C19_GateMonotonicityWithoutPluralKeys ==
    [][(/\ fold'.obs.entity_type \notin {"people", "places"}
        /\ DOMAIN fold.beliefs \cap {"people", "places"} = {})
          => GateMonotone(fold.beliefs, fold'.beliefs, fold'.obs)]_vars

\* A fold that Gate C rejected: the belief was updated before, and this run
\* left it alone
C19_GateCWitness ==
    /\ fold.obs.entity_type = "person"
    /\ fold.obs.confidence >= MinObsConf
    /\ fold.obs.dimension_values = [warmth |-> 5000]
    /\ <<"person", "mom", "warmth">> \in BeliefKeys(fold.beliefs)
    /\ Belief(fold.beliefs, <<"person", "mom", "warmth">>).n = 1
    /\ Belief(fold.beliefs, <<"person", "mom", "warmth">>).last_updated_turn < fold.turn

\* C20: a fold of an observation whose confidence is below min_obs_conf
\* leaves the belief store exactly as it was: no entity type, entity or
\* dimension is created and no belief changes.
C20_GateAIsNoOp ==
    [][fold'.obs.confidence < MinObsConf => fold'.beliefs = fold.beliefs]_vars

\* C20 holds of the folds on a store without the plural names the aggregator
\* migrates
C20_GateAIsNoOpWithoutPluralKeys ==
    [][(/\ fold'.obs.confidence < MinObsConf
        /\ DOMAIN fold.beliefs \cap {"people", "places"} = {})
          => fold'.beliefs = fold.beliefs]_vars

\* A fold that Gate A rejected, for an entity the store holds no belief of
C20_GateAWitness ==
    /\ fold.obs.confidence = 5000
    /\ fold.obs.entity_type = "person"
    /\ fold.obs.entity = "mom"
    /\ fold.obs.dimension_values = [warmth |-> 9000]
    /\ fold.calls = 1
    /\ fold.beliefs = InitialBeliefs

\* The beliefs of a store stay where they are in the next store, with
\* statistics that have grown or stayed
BeliefsKept(before, after) ==
    \A key \in BeliefKeys(before) :
        /\ key \in BeliefKeys(after)
        /\ Belief(after, key).n >= Belief(before, key).n

\* C21: a belief dimension is never deleted: a belief that exists under a
\* key (entity_type, entity, dimension) before a run of the aggregator or of
\* the Drift Engine exists under that key after it, with an n that is not
\* smaller, whatever entity_type the producer supplies.
C21_BeliefNeverDeleted ==
    [][BeliefsKept(fold.beliefs, fold'.beliefs)]_vars

\* C21 holds of the runs on a store without the plural names the aggregator
\* migrates
C21_BeliefNeverDeletedWithoutPluralKeys ==
    [][DOMAIN fold.beliefs \cap {"people", "places"} = {}
          => BeliefsKept(fold.beliefs, fold'.beliefs)]_vars

\* C22: every belief dimension the aggregator has created carries baseline
\* fields: baseline_mean equal to the initial mean 0 and baseline_turn equal
\* to the turn of the run that created it, which no fold changes afterwards.
C22_CreatedWithBaseline ==
    \A key \in BeliefKeys(fold.beliefs) :
        /\ {"baseline_mean", "baseline_turn"} \subseteq DOMAIN Belief(fold.beliefs, key)
        /\ Belief(fold.beliefs, key)["baseline_mean"] = 0
        /\ Belief(fold.beliefs, key)["baseline_turn"] \in 1..fold.turn

\* The consequence in the Drift Engine: a belief without baseline_mean is
\* measured against its own mean and does not trigger
C22_UnanchoredBeliefNeverTriggers ==
    \A p \in Candidates(fold.beliefs) :
        "baseline_mean" \notin DOMAIN fold.beliefs["person"][p]["warmth"]
            => p \notin Triggered(fold.beliefs)

\* The baseline fields a store holds under a key, none where there is no belief
BaselineFields(beliefs, key) ==
    IF key \notin BeliefKeys(beliefs) THEN EmptyMap
    ELSE [f \in DOMAIN Belief(beliefs, key) \cap {"baseline_mean", "baseline_turn"} |->
             Belief(beliefs, key)[f]]

\* The fields of a belief the aggregator maintains
AggregatorFields(dim_block) ==
    <<dim_block.mean, dim_block.confidence, dim_block.n, dim_block.last_updated_turn>>

\* C23: a fold changes no belief's baseline_mean or baseline_turn and no
\* trait; a Drift Engine run changes no belief's mean, confidence, n or
\* last_updated_turn and creates or removes no belief; a trait changes only
\* in a Drift Engine run.
C23_SeparationOfWriters ==
    [][/\ fold'.calls # fold.calls =>
            /\ refl'.trait_vector = refl.trait_vector
            /\ \A key \in BeliefKeys(fold.beliefs) \cup BeliefKeys(fold'.beliefs) :
                  BaselineFields(fold'.beliefs, key) = BaselineFields(fold.beliefs, key)
       /\ refl'.calls # refl.calls =>
            /\ BeliefKeys(fold'.beliefs) = BeliefKeys(fold.beliefs)
            /\ \A key \in BeliefKeys(fold.beliefs) :
                  AggregatorFields(Belief(fold'.beliefs, key))
                     = AggregatorFields(Belief(fold.beliefs, key))
       /\ refl'.trait_vector # refl.trait_vector => refl'.calls # refl.calls]_vars

\* C23 witness: a fold has moved mom's warmth, which kept the baseline it had,
\* and then a Drift Engine run has fired on it, moved trust and re-anchored
\* it, which kept the fold's statistics.
C23_Witness ==
    /\ refl.returned
    /\ refl.turn > fold.turn
    /\ fold.turn > 0
    /\ fold.obs.entity_type = "person"
    /\ refl.trait_vector["trust"] # 0
    /\ <<"person", "mom", "warmth">> \in BeliefKeys(fold.beliefs)
    /\ LET w == Belief(fold.beliefs, <<"person", "mom", "warmth">>)
       IN  /\ w.last_updated_turn = fold.turn
           /\ w.n = 13
           /\ w["baseline_turn"] = refl.turn

\* The persons whose warmth belief meets the three conditions together, read
\* off the store: a drift from the recorded baseline of at least
\* DRIFT_THRESHOLD, a confidence of at least CONF_THRESHOLD, and at least
\* MIN_OBS observations
MeetsAllThree(beliefs) ==
    {p \in DOMAIN MapGet(beliefs, "person", EmptyMap) :
        /\ "warmth" \in DOMAIN beliefs["person"][p]
        /\ LET w == beliefs["person"][p]["warmth"]
           IN  /\ "baseline_mean" \in DOMAIN w
               /\ (w.mean - w["baseline_mean"] >= DriftThreshold
                     \/ w["baseline_mean"] - w.mean >= DriftThreshold)
               /\ w.confidence >= ConfThreshold
               /\ w.n >= MinObs}

\* C24: ReflectionEngine.run returns true if and only if at least one
\* person.*.warmth belief meets all three conditions together, and the
\* beliefs it reports as triggered are exactly those; a belief that fails one
\* of the three is not triggered.
C24_ReturnsTrueIffSomeBeliefTriggers ==
    [][refl'.calls # refl.calls =>
          /\ refl'.returned <=> MeetsAllThree(fold.beliefs) # {}
          /\ refl'.audit[Len(refl'.audit)].did_update = refl'.returned
          /\ refl'.audit[Len(refl'.audit)].triggered = MeetsAllThree(fold.beliefs)]_vars

\* C24 witness: the run returned true for mom's belief, which met each
\* threshold exactly (drift 0.25, confidence 0.7, n 10), and did not trigger
\* dad's, whose confidence is 0.5
C24_Witness ==
    /\ refl.calls = 1
    /\ fold.calls = 0
    /\ refl.returned
    /\ refl.audit[1].triggered = {"mom"}
    /\ "dad" \in DOMAIN fold.beliefs["person"]
    /\ fold.beliefs["person"]["dad"]["warmth"].confidence = 5000
    /\ fold.beliefs["person"]["mom"]["warmth"].n = MinObs
    /\ fold.beliefs["person"]["mom"]["warmth"].confidence = ConfThreshold
    /\ fold.beliefs["person"]["mom"]["warmth"]["baseline_turn"] = refl.turn

\* trait_vector.get("trust", 0.0): the value of the trait
Trust(trait_vector) == MapGet(trait_vector, "trust", 0)

\* C25: a ReflectionEngine.run on a store in which no person.*.warmth
\* belief meets all three conditions returns false, appends one audit entry
\* that records no update, and leaves the value of trust and every belief,
\* its baseline_mean and baseline_turn included, as they were.
C25_NoTriggerIsNoOp ==
    [][(refl'.calls # refl.calls /\ MeetsAllThree(fold.beliefs) = {}) =>
          /\ refl'.returned = FALSE
          /\ Len(refl'.audit) = Len(refl.audit) + 1
          /\ SubSeq(refl'.audit, 1, Len(refl.audit)) = refl.audit
          /\ refl'.audit[Len(refl'.audit)].did_update = FALSE
          /\ refl'.audit[Len(refl'.audit)].turn = refl'.turn
          /\ Trust(refl'.trait_vector) = Trust(refl.trait_vector)
          /\ fold'.beliefs = fold.beliefs]_vars

\* C25 witness: mom's warmth has drifted by 0.8 over 12 observations but its
\* confidence is 0.5; the run returned false, logged no_beliefs_triggered, and
\* trust is still 0.5 and the baseline still 0.1 from turn 0
C25_Witness ==
    /\ refl.calls = 1
    /\ refl.returned = FALSE
    /\ refl.audit = <<AuditEntry(refl.turn, FALSE, "no_beliefs_triggered", {})>>
    /\ refl.trait_vector = [trust |-> 5000]
    /\ fold.beliefs["person"]["mom"]["warmth"] = AnchoredBlock(9000, 5000, 12, 1000)

\* C26: a single ReflectionEngine.run moves trust by at most TRAIT_MAX_STEP
\* and leaves it within [-1, 1], whatever the store and the signal, for every
\* prior trust within [-1, 1].
C26_TraitStepIsBounded ==
    [][refl'.calls # refl.calls =>
          /\ Abs(Trust(refl'.trait_vector) - Trust(refl.trait_vector)) <= TraitMaxStep
          /\ -ScaleOne <= Trust(refl'.trait_vector)
          /\ Trust(refl'.trait_vector) <= ScaleOne]_vars

\* C26 witness: trust was -1 and the only triggered belief has mean 0.9, so
\* beta * (signal - trust) is 0.095; the run moved trust by 0.08, to -0.92
C26_Witness ==
    /\ refl.calls = 1
    /\ fold.calls = 0
    /\ refl.returned
    /\ refl.audit[1].triggered = {"mom"}
    /\ fold.beliefs["person"]["mom"]["warmth"].mean = 9000
    /\ refl.trait_vector = [trust |-> TraitMaxStep - ScaleOne]

\* C27: in a ReflectionEngine.run in which some belief triggers, each
\* triggered belief gets baseline_mean set to its current mean and
\* baseline_turn set to the turn of the run, and every other belief keeps
\* the baseline fields it had.
C27_BaselineResetIsSelective ==
    [][(refl'.calls # refl.calls /\ MeetsAllThree(fold.beliefs) # {}) =>
          \A key \in BeliefKeys(fold.beliefs) :
              IF key[1] = "person" /\ key[3] = "warmth" /\ key[2] \in MeetsAllThree(fold.beliefs)
              THEN /\ key \in BeliefKeys(fold'.beliefs)
                   /\ Belief(fold'.beliefs, key)["baseline_mean"] = Belief(fold.beliefs, key).mean
                   /\ Belief(fold'.beliefs, key)["baseline_turn"] = refl'.turn
              ELSE BaselineFields(fold'.beliefs, key) = BaselineFields(fold.beliefs, key)]_vars

\* C27 witness: mom's warmth triggered and is re-anchored at its mean -0.9
\* at the turn of the run; dad's, with confidence 0.5, did not and is still
\* anchored at 0.1 from turn 0
C27_Witness ==
    /\ refl.calls = 1
    /\ refl.returned
    /\ refl.turn > 0
    /\ "dad" \in DOMAIN fold.beliefs["person"]
    /\ fold.beliefs["person"]["mom"]["warmth"].mean = -9000
    /\ fold.beliefs["person"]["mom"]["warmth"]["baseline_mean"] = -9000
    /\ fold.beliefs["person"]["mom"]["warmth"]["baseline_turn"] = refl.turn
    /\ fold.beliefs["person"]["dad"]["warmth"] = AnchoredBlock(9000, 5000, 12, 1000)

\* No belief that stays under its key has a smaller confidence afterwards
ConfidenceKept(before, after) ==
    \A key \in BeliefKeys(before) \cap BeliefKeys(after) :
        Belief(after, key).confidence >= Belief(before, key).confidence

\* C28: over any sequence of folds and Drift Engine runs, the confidence of
\* a belief dimension never decreases.
C28_ConfidenceNeverDecreases ==
    [][ConfidenceKept(fold.beliefs, fold'.beliefs)]_vars

\* C28 holds of the runs on a store without the plural names the aggregator
\* migrates
C28_ConfidenceNeverDecreasesWithoutPluralKeys ==
    [][DOMAIN fold.beliefs \cap {"people", "places"} = {}
          => ConfidenceKept(fold.beliefs, fold'.beliefs)]_vars

\* A belief under person whose confidence two admitted folds have raised twice
C28_RaisedTwiceWitness ==
    /\ <<"person", "mom", "warmth">> \in BeliefKeys(fold.beliefs)
    /\ Belief(fold.beliefs, <<"person", "mom", "warmth">>).n = 2
    /\ Belief(fold.beliefs, <<"person", "mom", "warmth">>).confidence
          > InitialConfidence + RoundDiv(ConfGain * 15000, ScaleOne)

\* The observation with each dimension value clamped to [-1, 1]
ClampedObs(obs) ==
    [obs EXCEPT !.dimension_values =
        [d \in DOMAIN obs.dimension_values |->
            clamp(obs.dimension_values[d], -ScaleOne, ScaleOne)]]

\* C29: a fold of an observation leaves the belief store that the fold of the
\* same observation with its dimension values clamped to [-1, 1] leaves: a
\* value outside the range counts as the nearest bound.
C29_OutOfRangeValueIsClamped ==
    [][fold'.calls # fold.calls =>
          fold'.beliefs = ConsolidationRun(fold.beliefs, <<ClampedObs(fold'.obs)>>, fold'.turn)]_vars

\* C29 holds of the folds of values within [-1, 1]
C29_InRangeValueIsFoldedAsIs ==
    [][(fold'.calls # fold.calls /\ ClampedObs(fold'.obs) = fold'.obs) =>
          fold'.beliefs = ConsolidationRun(fold.beliefs, <<ClampedObs(fold'.obs)>>, fold'.turn)]_vars

\* The spellings of mom's name that differ in letter case or in surrounding
\* whitespace only
MomSpellings == {"mom", "Mom", "MOM", " mom ", " MOM"}

\* C30: observations whose entity names differ only in letter case or
\* surrounding whitespace update one belief entry: the store never holds two
\* entries of such names under one entity_type, and a fold under any
\* spelling leaves the store that the fold under the plain name leaves.
C30_EntityNamesAreNormalized ==
    [][fold'.calls # fold.calls =>
          /\ \A t \in DOMAIN fold'.beliefs :
                Cardinality(DOMAIN fold'.beliefs[t] \cap MomSpellings) <= 1
          /\ fold'.obs.entity \in MomSpellings =>
                fold'.beliefs = ConsolidationRun(fold.beliefs,
                                    <<[fold'.obs EXCEPT !.entity = "mom"]>>, fold'.turn)]_vars

\* C30 witness: the observation spelled " MOM" has updated, as its second
\* update, the entry that the observation spelled "mom" created: the mean is
\* that of 0.9 followed by -0.5, and the name with a space inside has an
\* entry of its own
C30_Witness ==
    /\ fold.obs.entity = " MOM"
    /\ DOMAIN fold.beliefs["person"] = {"mom", "mo m"}
    /\ fold.beliefs["person"]["mom"]["warmth"].n = 2
    /\ fold.beliefs["person"]["mom"]["warmth"].last_updated_turn = fold.turn
    /\ fold.beliefs["person"]["mom"]["warmth"].mean = Proposed(Proposed(0, 9000), -5000)

\* The belief an observation's dimension d is folded into, or the block a new
\* dimension starts from
OldBlock(beliefs, obs, d) == BeliefOrNew(beliefs, ObsKey(obs, d))

\* C31: when all gates pass, the fold sets exactly mean to
\* clamp((1 - alpha) * old_mean + alpha * value, -1, 1), n to n + 1,
\* last_updated_turn to the turn, and confidence to
\* clamp(confidence + conf_gain * observation.confidence, 0, 1).
C31_AdmittedUpdateIsExact ==
    [][fold'.calls # fold.calls =>
          \A d \in DOMAIN fold'.obs.dimension_values :
              ~Rejected(fold.beliefs, fold'.obs, d) =>
                  LET old == OldBlock(fold.beliefs, fold'.obs, d)
                      new == Belief(fold'.beliefs, ObsKey(fold'.obs, d))
                      value == fold'.obs.dimension_values[d]
                  IN  /\ new.mean = Max(-ScaleOne, Min(ScaleOne,
                             RoundDiv((ScaleOne - Alpha) * old.mean + Alpha * value, ScaleOne)))
                      /\ new.n = old.n + 1
                      /\ new.last_updated_turn = fold'.turn
                      /\ new.confidence = Max(0, Min(ScaleOne,
                             old.confidence + RoundDiv(ConfGain * fold'.obs.confidence, ScaleOne)))
                      /\ DOMAIN new = DOMAIN old]_vars

\* C31, the example: folds of value 0.9 with confidence 0.9 on a new
\* dimension are admitted three times in a row and take the mean from 0 to
\* 0.225, to 0.39375 and to 0.5203, n to 3 and the confidence to 0.335; the
\* means are compared at the resolution 0.0001 of the model's numbers.
C31_ThreeFoldsExample ==
    [][(fold'.calls # fold.calls /\ fold'.obs = ObsWarm) =>
          LET old == OldBlock(fold.beliefs, ObsWarm, "warmth")
              new == OldBlock(fold'.beliefs, ObsWarm, "warmth")
          IN  /\ (old.n = 0 /\ old.mean = 0 /\ old.confidence = InitialConfidence) =>
                    new.n = 1 /\ new.mean = 2250 /\ new.confidence = 2450
              /\ (old.n = 1 /\ old.mean = 2250 /\ old.confidence = 2450) =>
                    new.n = 2 /\ new.mean \in 3937..3938 /\ new.confidence = 2900
              /\ (old.n = 2 /\ old.mean \in 3937..3938 /\ old.confidence = 2900) =>
                    new.n = 3 /\ new.mean \in 5203..5204 /\ new.confidence = 3350]_vars

\* C31 in full: the rule and the example
C31_AdmittedUpdate ==
    C31_AdmittedUpdateIsExact /\ C31_ThreeFoldsExample

\* C31 witness: the third fold of value 0.9 with confidence 0.9 in a row has
\* been admitted: n is 3, at turn 3, with the mean of the example
C31_Witness ==
    /\ fold.calls = 3
    /\ fold.obs = ObsWarm
    /\ Belief(fold.beliefs, <<"person", "mom", "warmth">>).n = 3
    /\ Belief(fold.beliefs, <<"person", "mom", "warmth">>).last_updated_turn = 3
    /\ Belief(fold.beliefs, <<"person", "mom", "warmth">>).confidence = 3350
    /\ Belief(fold.beliefs, <<"person", "mom", "warmth">>).mean
          = Proposed(Proposed(Proposed(0, 9000), 9000), 9000)

\* An update of dimension d by obs has passed Gate A and Gate B
PassedAB(obs, d) ==
    /\ ~(obs.confidence < MinObsConf)
    /\ ~(Abs(obs.dimension_values[d]) < MinAbsValue)

\* C32: an update that passed Gates A and B is skipped (the belief stays as
\* it was) if and only if |proposed - old_mean| < min_delta and the
\* dimension has n > 0; otherwise it is admitted (n goes up by one), and a
\* dimension with n = 0 is admitted whatever the delta.
C32_GateCSkipsSmallStepsOfKnownDimensions ==
    [][fold'.calls # fold.calls =>
          \A d \in DOMAIN fold'.obs.dimension_values :
              PassedAB(fold'.obs, d) =>
                  LET key == ObsKey(fold'.obs, d)
                      old == OldBlock(fold.beliefs, fold'.obs, d)
                      new == OldBlock(fold'.beliefs, fold'.obs, d)
                      value == fold'.obs.dimension_values[d]
                      proposed == Max(-ScaleOne, Min(ScaleOne,
                          RoundDiv((ScaleOne - Alpha) * old.mean + Alpha * value, ScaleOne)))
                      small == Abs(proposed - old.mean) < MinDelta
                      skipped == /\ key \in BeliefKeys(fold.beliefs)
                                 /\ new = Belief(fold.beliefs, key)
                      admitted == /\ key \in BeliefKeys(fold'.beliefs)
                                  /\ new.n = old.n + 1
                                  /\ new.last_updated_turn = fold'.turn
                  IN  /\ skipped <=> (small /\ old.n > 0)
                      /\ admitted <=> ~skipped
                      /\ old.n = 0 => admitted]_vars

\* C32 witness: all three cases have happened in one history: a step of
\* 0.025 on the dimension with n = 0 was admitted (mean 0.8 to 0.825), a
\* second step of 0.019 on it was skipped, and a step of 0.431 was admitted
C32_Witness ==
    /\ fold.calls = 3
    /\ fold.obs.dimension_values = [warmth |-> -9000]
    /\ OldBlock(fold.beliefs, fold.obs, "warmth").n = 2
    /\ OldBlock(fold.beliefs, fold.obs, "warmth").last_updated_turn = 3
    /\ OldBlock(fold.beliefs, fold.obs, "warmth").mean
          = Proposed(Proposed(8000, 9000), -9000)

\* The beliefs of a store as pairs of key and statistics
BeliefsOf(beliefs) == {<<key, Belief(beliefs, key)>> : key \in BeliefKeys(beliefs)}

\* The dimensions of an observation past Gate A that Gate B or Gate C rejects
RejectedByBC(beliefs, obs) ==
    {d \in DOMAIN obs.dimension_values :
        /\ ~(obs.confidence < MinObsConf)
        /\ Rejected(beliefs, obs, d)}

\* The observation without some of its dimensions
WithoutDims(obs, dims) ==
    [obs EXCEPT !.dimension_values =
        [d \in DOMAIN obs.dimension_values \ dims |-> obs.dimension_values[d]]]

\* C33: a dimension that Gate B or Gate C rejects neither creates nor
\* changes its belief, and the run leaves the beliefs that a run on the
\* same observation without the rejected dimensions leaves.
C33_GatesArePerDimension ==
    [][fold'.calls # fold.calls =>
          LET out == RejectedByBC(fold.beliefs, fold'.obs)
          IN  /\ \A d \in out :
                    LET key == ObsKey(fold'.obs, d)
                    IN  /\ key \in BeliefKeys(fold'.beliefs) <=> key \in BeliefKeys(fold.beliefs)
                        /\ key \in BeliefKeys(fold.beliefs) =>
                              Belief(fold'.beliefs, key) = Belief(fold.beliefs, key)
              /\ BeliefsOf(fold'.beliefs)
                    = BeliefsOf(ConsolidationRun(fold.beliefs,
                                                 <<WithoutDims(fold'.obs, out)>>, fold'.turn))]_vars

\* C33 witness: an observation of warmth 0.5 and respect 0.9 has been folded
\* after one of warmth 0.9: Gate C rejected its warmth (a step of 0.069) and
\* its respect was created and updated
C33_Witness ==
    /\ fold.calls = 2
    /\ fold.obs.dimension_values = [warmth |-> 5000, respect |-> 9000]
    /\ BeliefKeys(fold.beliefs) = {<<"person", "mom", "warmth">>, <<"person", "mom", "respect">>}
    /\ Belief(fold.beliefs, <<"person", "mom", "warmth">>)
          = [mean |-> 2250, confidence |-> 2450, n |-> 1, last_updated_turn |-> 1]
    /\ Belief(fold.beliefs, <<"person", "mom", "respect">>)
          = [mean |-> 2250, confidence |-> 2450, n |-> 1, last_updated_turn |-> 2]

\* C33 witness for Gate B: an observation of warmth 0.9 and respect 0.2 has
\* been folded into the new store: warmth is updated, respect does not exist
C33_GateBWitness ==
    /\ fold.calls = 1
    /\ fold.obs.dimension_values = [warmth |-> 9000, respect |-> 2000]
    /\ BeliefKeys(fold.beliefs) = {<<"person", "mom", "warmth">>}
    /\ Belief(fold.beliefs, <<"person", "mom", "warmth">>).n = 1

\* C38: a fold of an observation that passes Gate A and whose every
\* dimension Gate B rejects leaves the belief store as it was: no entry for
\* the entity type and no entry for the entity is created.
C38_AllWeakObservationLeavesStoreUnchanged ==
    [][(/\ fold'.calls # fold.calls
        /\ ~(fold'.obs.confidence < MinObsConf)
        /\ \A d \in DOMAIN fold'.obs.dimension_values :
              Abs(fold'.obs.dimension_values[d]) < MinAbsValue)
          => fold'.beliefs = fold.beliefs]_vars

\* C38, what holds instead: such a fold leaves every belief as it was, and
\* the store has an entry, possibly empty, for the entity afterwards
C38_AllWeakObservationCreatesEntityEntry ==
    [][(/\ fold'.calls # fold.calls
        /\ ~(fold'.obs.confidence < MinObsConf)
        /\ \A d \in DOMAIN fold'.obs.dimension_values :
              Abs(fold'.obs.dimension_values[d]) < MinAbsValue)
          => /\ BeliefsOf(fold'.beliefs) = BeliefsOf(fold.beliefs)
             /\ fold'.obs.entity_type \in DOMAIN fold'.beliefs
             /\ EntityKey(fold'.obs.entity) \in DOMAIN fold'.beliefs[fold'.obs.entity_type]]_vars

\* C38: the store after the first fold, of warmth 0.2 at confidence 0.9,
\* into the new store: an entry for mom that holds no dimension
C38_EmptyEntityEntry ==
    /\ fold.calls = 1
    /\ fold.obs.dimension_values = [warmth |-> 2000]
    /\ fold.obs.confidence = 9000
    /\ fold.beliefs = [place |-> EmptyMap, person |-> [mom |-> EmptyMap]]

\* The store with another warmth belief for one person
WithWarmth(beliefs, p, dim_block) ==
    [beliefs EXCEPT !["person"][p]["warmth"] = dim_block]

\* C34: when beliefs trigger, trust moves towards
\* clamp(sum(mean * confidence) / sum(confidence), -1, 1) taken over the
\* triggered beliefs, and a run on the same store with another mean or
\* confidence for a warmth belief that does not trigger gives the same trust.
C34_SignalIsOverTriggeredBeliefsOnly ==
    [][(refl'.calls # refl.calls /\ MeetsAllThree(fold.beliefs) # {}) =>
          LET triggered == MeetsAllThree(fold.beliefs)
              signal == Max(-ScaleOne, Min(ScaleOne,
                            RoundDiv(WeightedSum(fold.beliefs, triggered),
                                     WeightTotal(fold.beliefs, triggered))))
          IN  /\ Trust(refl'.trait_vector) = NewTrait(Trust(refl.trait_vector), signal)
              /\ \A p \in Candidates(fold.beliefs) \ triggered :
                    \A other \in ReflectBlocks :
                        LET changed == WithWarmth(fold.beliefs, p, other)
                        IN  p \notin MeetsAllThree(changed) =>
                              ReflectionRun(changed, refl.trait_vector, refl'.turn).trait_vector
                                  = refl'.trait_vector]_vars

\* C34 witness: mom's warmth -0.9 at confidence 1.0 triggered, dad's 0.9 at
\* confidence 0.5 did not, and trust went from 0 to -0.045, the step towards
\* the signal -0.9 (towards -0.3, the mean over both, it would be -0.015)
C34_Witness ==
    /\ refl.calls = 1
    /\ fold.calls = 0
    /\ refl.returned
    /\ refl.audit[1].triggered = {"mom"}
    /\ "dad" \in DOMAIN fold.beliefs["person"]
    /\ fold.beliefs["person"]["dad"]["warmth"].mean = 9000
    /\ fold.beliefs["person"]["dad"]["warmth"].confidence = 5000
    /\ fold.beliefs["person"]["mom"]["warmth"].mean = -9000
    /\ Trust(refl.trait_vector) = -450

\* C34 witness for the weights: both triggered, mom's 0.9 at confidence 0.8
\* and dad's -0.9 at confidence 1.0: the signal is -0.1 and trust went from
\* 0.5 to 0.47
C34_WeightedWitness ==
    /\ refl.calls = 1
    /\ fold.calls = 0
    /\ refl.audit[1].triggered = {"mom", "dad"}
    /\ fold.beliefs["person"]["mom"]["warmth"].mean = 9000
    /\ fold.beliefs["person"]["dad"]["warmth"].mean = -9000
    /\ Trust(refl.trait_vector) = 4700

\* The most recent operation was a ReflectionEngine.run that returned true
JustFired ==
    /\ refl.calls > 0
    /\ refl.turn = fold.calls + refl.calls
    /\ refl.returned

\* C40: a ReflectionEngine.run right after one that returned true, with no
\* fold in between, finds every belief that had triggered at its baseline,
\* returns false, and changes neither trust nor any belief or baseline.
C40_NoSecondFiringWithoutFold ==
    [][(refl'.calls # refl.calls /\ JustFired) =>
          /\ \A p \in refl.audit[Len(refl.audit)].triggered :
                LET w == fold.beliefs["person"][p]["warmth"]
                IN  w["baseline_mean"] = w.mean /\ w["baseline_turn"] = refl.turn
          /\ refl'.returned = FALSE
          /\ refl'.audit[Len(refl'.audit)].did_update = FALSE
          /\ Trust(refl'.trait_vector) = Trust(refl.trait_vector)
          /\ fold'.beliefs = fold.beliefs]_vars

\* C40 witness: the first run fired on mom and dad and took trust from 0.5
\* to 0.47; the second run followed at once, returned false, and trust is
\* 0.47 and both baselines are those of turn 1
C40_Witness ==
    /\ refl.calls = 2
    /\ fold.calls = 0
    /\ refl.audit[1].did_update
    /\ refl.audit[1].triggered = {"mom", "dad"}
    /\ ~refl.returned
    /\ refl.audit[2].reason = "no_beliefs_triggered"
    /\ Trust(refl.trait_vector) = 4700
    /\ \A p \in {"mom", "dad"} :
          /\ fold.beliefs["person"][p]["warmth"]["baseline_turn"] = 1
          /\ fold.beliefs["person"][p]["warmth"]["baseline_mean"]
                = fold.beliefs["person"][p]["warmth"].mean

\* The counters file is whole and its counters agree with each other
CountersConsistent ==
    /\ countersFile.ok
    /\ countersFile.data.turns_since_last_rumination
          = countersFile.data.current_turn - countersFile.data.last_rumination_turn
    /\ countersFile.data.last_buffer_committed_turn = countersFile.data.last_rumination_turn
    /\ countersFile.data.last_rumination_turn <= countersFile.data.current_turn

\* C39: when every call of Agent.step returns, from fresh counters, after
\* every step turns_since_last_rumination = current_turn -
\* last_rumination_turn and last_buffer_committed_turn =
\* last_rumination_turn <= current_turn, and each step raises current_turn
\* by exactly 1.
C39_CountersStayConsistent ==
    /\ []CountersConsistent
    /\ [][countersFile'.data.current_turn = countersFile.data.current_turn + 1]_vars

\* C39 witness: with a window of 2, three steps have returned: the second
\* ruminated, the third did not
C39_Witness ==
    /\ countersFile.ok
    /\ countersFile.data.rumination_window_size = 2
    /\ countersFile.data.current_turn = 3
    /\ countersFile.data.last_rumination_turn = 2
    /\ countersFile.data.last_buffer_committed_turn = 2
    /\ countersFile.data.turns_since_last_rumination = 1
    /\ last.stop = "return"

\* The step is the replace that ends a compaction
ReplaceStep == log.pc = "tmp_written" /\ log'.pc = "idle" /\ log'.op = "vacuum"

\* C37: a record whose append completed before the compaction replaces the
\* log file, and which passes the retention bounds, is in the log after the
\* compaction: the replace leaves every line that the compaction of the file
\* at the log path keeps.
C37_NoAppendLostToCompaction ==
    [][ReplaceStep =>
          \A line \in Range(RewrittenLog(log.file, log.keep_turn_greater_than,
                                          log.max_lines_keep)) :
              line \in Range(log'.file)]_vars

\* C37, what holds instead: the replace leaves the lines the compaction
\* kept when it scanned the file, whatever has been appended since
C37_ReplaceInstallsTheScannedLines ==
    [][ReplaceStep => log'.file = log.kept]_vars

\* C37: a compaction that keeps every turn above 0 has replaced the log,
\* after the append of turn 1 returned, and the log is empty
C37_AppendedRecordGone ==
    /\ log.op = "vacuum"
    /\ log.pc = "idle"
    /\ log.turn = 1
    /\ log.keep_turn_greater_than = 0
    /\ log.file = <<>>

\* The persons whose warmth belief has the observations and the confidence
\* the Drift Engine asks for and a mean at least DRIFT_THRESHOLD away from
\* the mean 0 it was created with
DriftedFromCreation(beliefs) ==
    {p \in Candidates(beliefs) :
        LET w == beliefs["person"][p]["warmth"]
        IN  /\ Abs(w.mean) >= DriftThreshold
            /\ w.confidence >= ConfThreshold
            /\ w.n >= MinObs}

\* C36: beliefs that folds alone have created can trigger and move the
\* trait: the first ReflectionEngine.run after folds that took a person's
\* warmth to n >= 10 and confidence >= 0.7 and its mean at least 0.25 away
\* from where it started returns true and changes trust.
C36_FoldedBeliefsFire ==
    [][(/\ refl'.calls # refl.calls
        /\ refl.calls = 0
        /\ DriftedFromCreation(fold.beliefs) # {})
          => /\ refl'.returned
             /\ Trust(refl'.trait_vector) # Trust(refl.trait_vector)]_vars

\* C36, what holds instead: whatever the folds, no run returns true, trust
\* stays 0 and no belief has a baseline
C36_NoRunFires ==
    /\ ~refl.returned
    /\ Trust(refl.trait_vector) = 0
    /\ \A key \in BeliefKeys(fold.beliefs) :
          "baseline_mean" \notin DOMAIN Belief(fold.beliefs, key)

\* C36: the Drift Engine has run after ten admitted folds: mom's warmth has
\* n = 10 and confidence 0.7 and a mean beyond 0.25, and the run returned
\* false with no_beliefs_triggered
C36_ReadyBeliefDidNotFire ==
    /\ refl.calls = 1
    /\ fold.calls = MinObs
    /\ DriftedFromCreation(fold.beliefs) = {"mom"}
    /\ ~refl.returned
    /\ refl.audit[1].reason = "no_beliefs_triggered"

\* The items of an output and the elements of their content in the order of
\* the response: each item, then its content, then the next item
RECURSIVE InDocumentOrder(_)
InDocumentOrder(output) ==
    IF output = <<>> THEN <<>>
    ELSE <<[type |-> Head(output).type, name |-> Head(output).name,
            arguments |-> Head(output).arguments]>>
           \o Head(output).content \o InDocumentOrder(Tail(output))

\* The calls of the tool among them
ToolCalls(output) ==
    SelectSeq(InDocumentOrder(output),
              LAMBDA c : (c.type = "function_call" \/ c.type = "tool_call") /\ c.name = ToolName)

\* C35: _extract_function_args returns the arguments of the first element,
\* top-level or nested in an item's content, whose type is function_call or
\* tool_call and whose name is the tool name: a dict as it is, a JSON string
\* parsed, and {"entities": []} for arguments that cannot be parsed.
C35_ReturnsArgumentsOfFirstToolCall ==
    (ext.called /\ ToolCalls(ext.response.output) # <<>>) =>
        LET arguments == ToolCalls(ext.response.output)[1].arguments
        IN  /\ arguments.kind = "dict" => ext.args = arguments.value
            /\ (arguments.kind = "str" /\ json_loads(arguments.text).ok) =>
                  ext.args = json_loads(arguments.text).value
            /\ (arguments.kind = "str" /\ ~json_loads(arguments.text).ok) =>
                  ext.args = [entities |-> <<>>]
            /\ arguments.kind = "none" => ext.args = [entities |-> <<>>]

\* C35 witness: the response holds a message with a call of another function
\* and then a tool call with a dict, followed by a top-level call of the tool
\* with a JSON string: the nested dict, which comes first, was returned
C35_Witness ==
    /\ ext.called
    /\ Len(ext.response.output) = 2
    /\ ext.response.output[1].type = "message"
    /\ ext.response.output[1].content
          = <<ContentElement("tool_call", "other_tool", DictArgs(ArgsCafe)),
              ContentElement("tool_call", ToolName, DictArgs(NoEntities))>>
    /\ ext.response.output[2]
          = OutputItem("function_call", ToolName, StrArgs("{\"entities\": [\"park\"]}"), <<>>)
    /\ ext.args = NoEntities

\* C35 witness for a string: the first tool call is top-level and its
\* arguments are a JSON string: the parsed dict was returned
C35_ParsedWitness ==
    /\ ext.called
    /\ Len(ext.response.output) = 2
    /\ ext.response.output[1].type = "reasoning"
    /\ ext.response.output[2]
          = OutputItem("function_call", ToolName, StrArgs("{\"entities\": [\"park\"]}"), <<>>)
    /\ ext.args = ArgsPark

\* C35 witness for the fallback of the parser: the arguments are a text cut
\* short, and the result is {"entities": []} although output_text is JSON
C35_UnparsableWitness ==
    /\ ext.called
    /\ Len(ext.response.output) = 1
    /\ ext.response.output[1].arguments = StrArgs("{\"entities\": [\"par")
    /\ ext.response.output_text = "{\"entities\": [\"cafe\"]}"
    /\ ext.args = NoEntities

====
